---- MODULE Spec2Model ----
(***************************************************************************)
(* A model of the detection rule engine of macos-log-dfir: the selection   *)
(* tree built from a rule's `detection` YAML (rule/rulenode.rs,            *)
(* rule/selectionnodes.rs), the condition compiler                         *)
(* (rule/condition_parser.rs), the leaf matcher (rule/matchers.rs), the    *)
(* rule loading of main.rs and detect of detection.rs.                     *)
(*                                                                         *)
(* Strings of the program are sequences of one-character strings, so that  *)
(* the tokenizer, the prefix tests and the textual replacements work on    *)
(* characters as the code does.                                            *)
(***************************************************************************)
EXTENDS Integers, Sequences, FiniteSets, TLC

\* ------------------------------------------------------------------------
\* Strings
\* ------------------------------------------------------------------------

\* str::starts_with
StartsWith(s, p) ==
    /\ Len(p) <= Len(s)
    /\ SubSeq(s, 1, Len(p)) = p

\* str::ends_with
EndsWith(s, p) ==
    /\ Len(p) <= Len(s)
    /\ SubSeq(s, Len(s) - Len(p) + 1, Len(s)) = p

\* str::find: the 1-based index of the first occurrence of pat at or after
\* position from, 0 when there is none.
RECURSIVE FindFrom(_, _, _)
FindFrom(s, pat, from) ==
    IF from + Len(pat) - 1 > Len(s) THEN 0
    ELSE IF SubSeq(s, from, from + Len(pat) - 1) = pat THEN from
    ELSE FindFrom(s, pat, from + 1)

\* str::replace: every non-overlapping occurrence of a non-empty pattern,
\* left to right.
RECURSIVE Replace(_, _, _)
Replace(s, from, to) ==
    LET i == FindFrom(s, from, 1)
    IN IF i = 0 THEN s
       ELSE SubSeq(s, 1, i - 1) \o to
            \o Replace(SubSeq(s, i + Len(from), Len(s)), from, to)

\* str::replacen(_, _, 1): the first occurrence only.
ReplaceFirst(s, from, to) ==
    LET i == FindFrom(s, from, 1)
    IN IF i = 0 THEN s
       ELSE SubSeq(s, 1, i - 1) \o to \o SubSeq(s, i + Len(from), Len(s))

\* Itertools::join of a sequence of strings.
RECURSIVE Join(_, _)
Join(strs, sep) ==
    IF strs = <<>> THEN <<>>
    ELSE IF Len(strs) = 1 THEN strs[1]
    ELSE strs[1] \o sep \o Join(Tail(strs), sep)

\* The characters the regex class \w matches: the ASCII letters, digits and
\* underscore, and the letters beyond ASCII, of which the model has one.
WordChars ==
    {"a", "b", "c", "d", "e", "f", "g", "h", "i", "j", "k", "l", "m", "n",
     "o", "p", "q", "r", "s", "t", "u", "v", "w", "x", "y", "z",
     "A", "B", "C", "D", "E", "F", "G", "H", "I", "J", "K", "L", "M", "N",
     "O", "P", "Q", "R", "S", "T", "U", "V", "W", "X", "Y", "Z",
     "0", "1", "2", "3", "4", "5", "6", "7", "8", "9", "_", "é"}

\* The length of the longest prefix of s made of word characters.
RECURSIVE WordRun(_)
WordRun(s) ==
    IF s = <<>> \/ Head(s) \notin WordChars THEN 0
    ELSE 1 + WordRun(Tail(s))

\* ------------------------------------------------------------------------
\* Results and error messages
\* ------------------------------------------------------------------------

\* An error string: a fixed text, with the name format! puts before it and
\* the prefix compile_condition puts before both.
Msg(text) == [prefix |-> "", arg |-> <<>>, text |-> text]

Ok(v) == [ok |-> TRUE, val |-> v, err |-> Msg("")]

Err(m) == [ok |-> FALSE, val |-> <<>>, err |-> m]

\* ------------------------------------------------------------------------
\* rule/condition_parser.rs: tokens
\* ------------------------------------------------------------------------

\* A ConditionToken: its variant, the name of a SelectionReference and the
\* sub-tokens of a container.
Token(type) == [type |-> type, name |-> <<>>, sub |-> <<>>]

SelectionReference(name) ==
    [type |-> "SelectionReference", name |-> name, sub |-> <<>>]

Container(type, sub_tokens) == [type |-> type, name |-> <<>>, sub |-> sub_tokens]

ContainerTypes ==
    {"ParenthesisContainer", "AndContainer", "OrContainer", "NotContainer",
     "OperandContainer"}

replace_subtoken(token, sub_tokens) ==
    IF token.type \in ContainerTypes THEN Container(token.type, sub_tokens)
    ELSE token

sub_tokens(token) ==
    IF token.type \in ContainerTypes THEN token.sub ELSE <<>>

sub_tokens_without_parenthesis(token) ==
    IF token.type = "ParenthesisContainer" THEN <<>> ELSE sub_tokens(token)

is_logical(token) == token.type \in {"And", "Or"}

\* ------------------------------------------------------------------------
\* rule/condition_parser.rs: tokenize
\* ------------------------------------------------------------------------

\* CONDITION_REGEXMAP with `^\w` for `^\w+`: one word character at a time.
CONDITION_REGEXMAP_char(s) ==
    IF s = <<>> THEN 0
    ELSE IF Head(s) = "(" THEN 1
    ELSE IF Head(s) = ")" THEN 1
    ELSE IF Head(s) = " " THEN 1
    ELSE IF Head(s) \in WordChars THEN 1
    ELSE 0

\* CONDITION_REGEXMAP, tried in order at the start of the input: the length
\* of the first regex's match, 0 when none of the four matches.
CONDITION_REGEXMAP(s) ==
    IF s = <<>> THEN 0
    ELSE IF Head(s) = "(" THEN 1
    ELSE IF Head(s) = ")" THEN 1
    ELSE IF Head(s) = " " THEN 1
    ELSE WordRun(s)

to_enum(token) ==
    IF token = <<"(">> THEN Token("LeftParenthesis")
    ELSE IF token = <<")">> THEN Token("RightParenthesis")
    ELSE IF token = <<" ">> THEN Token("Space")
    ELSE IF token = <<"n", "o", "t">> THEN Token("Not")
    ELSE IF token = <<"a", "n", "d">> THEN Token("And")
    ELSE IF token = <<"o", "r">> THEN Token("Or")
    ELSE SelectionReference(token)

RECURSIVE tokenize_loop(_, _)
tokenize_loop(cur_condition_str, tokens) ==
    IF cur_condition_str = <<>> THEN Ok(tokens)
    ELSE LET n == CONDITION_REGEXMAP(cur_condition_str)
         IN IF n = 0 THEN Err(Msg("An unusable character was found."))
            ELSE LET mached_str == SubSeq(cur_condition_str, 1, n)
                     token == to_enum(mached_str)
                     rest == ReplaceFirst(cur_condition_str, mached_str, <<>>)
                 IN IF token.type = "Space"
                    THEN tokenize_loop(rest, tokens)
                    ELSE tokenize_loop(rest, Append(tokens, token))

tokenize(condition_str) == tokenize_loop(condition_str, <<>>)

\* ------------------------------------------------------------------------
\* rule/condition_parser.rs: parse_parenthesis
\* ------------------------------------------------------------------------

\* find_right_parenthesis without `left_cnt += 1`: the first right
\* parenthesis closes the group, whatever was opened inside it.
RECURSIVE find_right_parenthesis_first(_, _, _, _, _)
find_right_parenthesis_first(tokens, j, left_cnt, right_cnt, subs) ==
    IF j > Len(tokens)
    THEN [next |-> j, left_cnt |-> left_cnt, right_cnt |-> right_cnt, sub |-> subs]
    ELSE LET token == tokens[j]
             r == IF token.type = "RightParenthesis" THEN right_cnt + 1 ELSE right_cnt
         IN IF left_cnt = r
            THEN [next |-> j + 1, left_cnt |-> left_cnt, right_cnt |-> r, sub |-> subs]
            ELSE find_right_parenthesis_first(tokens, j + 1, left_cnt, r,
                                              Append(subs, token))

\* The inner `for token in tokens.by_ref()`: from position j, with the
\* counts so far, to the matching right parenthesis or the end of input.
RECURSIVE find_right_parenthesis(_, _, _, _, _)
find_right_parenthesis(tokens, j, left_cnt, right_cnt, subs) ==
    IF j > Len(tokens)
    THEN [next |-> j, left_cnt |-> left_cnt, right_cnt |-> right_cnt, sub |-> subs]
    ELSE LET token == tokens[j]
             l == IF token.type = "LeftParenthesis" THEN left_cnt + 1 ELSE left_cnt
             r == IF token.type = "LeftParenthesis" THEN right_cnt
                  ELSE IF token.type = "RightParenthesis" THEN right_cnt + 1
                  ELSE right_cnt
         IN IF l = r
            THEN [next |-> j + 1, left_cnt |-> l, right_cnt |-> r, sub |-> subs]
            ELSE find_right_parenthesis(tokens, j + 1, l, r, Append(subs, token))

RECURSIVE parse_parenthesis_loop(_, _, _)
parse_parenthesis_loop(tokens, i, ret) ==
    IF i > Len(tokens)
    THEN IF \E k \in 1..Len(ret) : ret[k].type = "RightParenthesis"
         THEN Err(Msg("'(' was expected but not found."))
         ELSE Ok(ret)
    ELSE IF tokens[i].type # "LeftParenthesis"
    THEN parse_parenthesis_loop(tokens, i + 1, Append(ret, tokens[i]))
    ELSE LET scan == find_right_parenthesis(tokens, i + 1, 1, 0, <<>>)
         IN IF scan.left_cnt # scan.right_cnt
            THEN Err(Msg("')' was expected but not found."))
            ELSE parse_parenthesis_loop(tokens, scan.next,
                     Append(ret, Container("ParenthesisContainer", scan.sub)))

parse_parenthesis(tokens) == parse_parenthesis_loop(tokens, 1, <<>>)

\* ------------------------------------------------------------------------
\* rule/condition_parser.rs: parse_and_or_operator
\* ------------------------------------------------------------------------

RECURSIVE to_operand_container_loop(_, _, _, _)
to_operand_container_loop(tokens, i, ret, grouped_operands) ==
    IF i > Len(tokens)
    THEN IF grouped_operands # <<>>
         THEN Append(ret, Container("OperandContainer", grouped_operands))
         ELSE ret
    ELSE IF is_logical(tokens[i])
    THEN IF grouped_operands = <<>>
         THEN to_operand_container_loop(tokens, i + 1, Append(ret, tokens[i]), <<>>)
         ELSE to_operand_container_loop(tokens, i + 1,
                  ret \o <<Container("OperandContainer", grouped_operands), tokens[i]>>,
                  <<>>)
    ELSE to_operand_container_loop(tokens, i + 1, ret,
             Append(grouped_operands, tokens[i]))

to_operand_container(tokens) == Ok(to_operand_container_loop(tokens, 1, <<>>, <<>>))

\* The second loop of parse_and_or_operator: every `and` joins the last
\* operand collected with the next one; every `or` starts a new operand.
RECURSIVE fold_and_operators(_, _, _, _)
fold_and_operators(operand_list, operator_list, k, operands) ==
    IF k > Len(operator_list) THEN operands
    ELSE IF operator_list[k].type = "Or"
    THEN fold_and_operators(operand_list, operator_list, k + 1,
             Append(operands, operand_list[k + 1]))
    ELSE LET and_operands == <<operands[Len(operands)], operand_list[k + 1]>>
             and_container == Container("AndContainer", and_operands)
         IN fold_and_operators(operand_list, operator_list, k + 1,
                Append(SubSeq(operands, 1, Len(operands) - 1), and_container))

SelectIndices(tokens, parity) ==
    LET idx == {i \in 1..Len(tokens) : (i - 1) % 2 = parity}
        n == Cardinality(idx)
    IN [k \in 1..n |-> tokens[2 * (k - 1) + 1 + parity]]

\* parse_and_or_operator with every operator treated as `or`: the operands
\* are never joined by `and`.
parse_and_or_operator_flat(tokens_in) ==
    IF tokens_in = <<>> THEN Err(Msg("Unknown error."))
    ELSE LET tokens == to_operand_container(tokens_in).val
         IN IF is_logical(tokens[1]) \/ is_logical(tokens[Len(tokens)])
            THEN Err(Msg("An illegal logical operator(and, or) was found."))
            ELSE IF \E i \in 1..Len(tokens) :
                        (((i - 1) % 2) = 1) # is_logical(tokens[i])
            THEN Err(Msg("The use of a logical operator(and, or) was wrong."))
            ELSE Ok(Container("OrContainer", SelectIndices(tokens, 0)))

\* parse_and_or_operator expecting the operators at the even indexes.
parse_and_or_operator_parity(tokens_in) ==
    IF tokens_in = <<>> THEN Err(Msg("Unknown error."))
    ELSE LET tokens == to_operand_container(tokens_in).val
         IN IF is_logical(tokens[1]) \/ is_logical(tokens[Len(tokens)])
            THEN Err(Msg("An illegal logical operator(and, or) was found."))
            ELSE IF \E i \in 1..Len(tokens) :
                        (((i - 1) % 2) = 0) # is_logical(tokens[i])
            THEN Err(Msg("The use of a logical operator(and, or) was wrong."))
            ELSE Ok(Container("OrContainer", SelectIndices(tokens, 0)))

\* parse_and_or_operator without the check of the first and the last token.
parse_and_or_operator_unguarded(tokens_in) ==
    IF tokens_in = <<>> THEN Err(Msg("Unknown error."))
    ELSE LET tokens == to_operand_container(tokens_in).val
         IN IF \E i \in 1..Len(tokens) :
                     (((i - 1) % 2) = 1) # is_logical(tokens[i])
            THEN Err(Msg("The use of a logical operator(and, or) was wrong."))
            ELSE LET operand_list == SelectIndices(tokens, 0)
                     operator_list == SelectIndices(tokens, 1)
                     operands == fold_and_operators(operand_list, operator_list, 1,
                                     <<operand_list[1]>>)
                 IN Ok(Container("OrContainer", operands))

\* parse_and_or_operator taking no token for a disjunction of nothing.
parse_and_or_operator_empty(tokens_in) ==
    IF tokens_in = <<>> THEN Ok(Container("OrContainer", <<>>))
    ELSE LET tokens == to_operand_container(tokens_in).val
         IN IF is_logical(tokens[1]) \/ is_logical(tokens[Len(tokens)])
            THEN Err(Msg("An illegal logical operator(and, or) was found."))
            ELSE IF \E i \in 1..Len(tokens) :
                        (((i - 1) % 2) = 1) # is_logical(tokens[i])
            THEN Err(Msg("The use of a logical operator(and, or) was wrong."))
            ELSE LET operand_list == SelectIndices(tokens, 0)
                     operator_list == SelectIndices(tokens, 1)
                     operands == fold_and_operators(operand_list, operator_list, 1,
                                     <<operand_list[1]>>)
                 IN Ok(Container("OrContainer", operands))

parse_and_or_operator(tokens_in) ==
    IF tokens_in = <<>> THEN Err(Msg("Unknown error."))
    ELSE LET tokens == to_operand_container(tokens_in).val
         IN IF is_logical(tokens[1]) \/ is_logical(tokens[Len(tokens)])
            THEN Err(Msg("An illegal logical operator(and, or) was found."))
            ELSE IF \E i \in 1..Len(tokens) :
                        (((i - 1) % 2) = 1) # is_logical(tokens[i])
            THEN Err(Msg("The use of a logical operator(and, or) was wrong."))
            ELSE LET operand_list == SelectIndices(tokens, 0)
                     operator_list == SelectIndices(tokens, 1)
                     operands == fold_and_operators(operand_list, operator_list, 1,
                                     <<operand_list[1]>>)
                 IN Ok(Container("OrContainer", operands))

\* ------------------------------------------------------------------------
\* rule/condition_parser.rs: parse_operand_container
\* ------------------------------------------------------------------------

MultipleNamesMsg ==
    Msg("Unknown error. Maybe it is because there are multiple names of selection nodes.")

RECURSIVE parse_operand_container(_)
RECURSIVE parse_operand_container_loop(_, _, _)

\* `for sub_token in sub_tokens { ...? }`: the first error ends the loop.
parse_operand_container_loop(subs, i, new_sub_tokens) ==
    IF i > Len(subs) THEN Ok(new_sub_tokens)
    ELSE LET r == parse_operand_container(subs[i])
         IN IF ~r.ok THEN r
            ELSE parse_operand_container_loop(subs, i + 1, Append(new_sub_tokens, r.val))

\* parse_operand_container taking a run of two tokens that does not start
\* with `not` as its first token.
parse_operand_container_first(parent_token) ==
    IF parent_token.type = "OperandContainer"
    THEN LET subs == parent_token.sub
         IN IF Len(subs) >= 3 THEN Err(MultipleNamesMsg)
            ELSE IF Len(subs) = 0 THEN Err(Msg("Unknown error."))
            ELSE IF Len(subs) = 1
            THEN IF subs[1].type = "Not"
                 THEN Err(Msg("An illegal not was found."))
                 ELSE Ok(subs[1])
            ELSE IF subs[1].type = "Not"
            THEN IF subs[2].type = "Not"
                 THEN Err(Msg("Not is continuous."))
                 ELSE Ok(Container("NotContainer", <<subs[2]>>))
            ELSE Ok(subs[1])
    ELSE LET subs == sub_tokens_without_parenthesis(parent_token)
         IN IF subs = <<>> THEN Ok(parent_token)
            ELSE LET r == parse_operand_container_loop(subs, 1, <<>>)
                 IN IF ~r.ok THEN r
                    ELSE Ok(replace_subtoken(parent_token, r.val))

parse_operand_container(parent_token) ==
    IF parent_token.type = "OperandContainer"
    THEN LET subs == parent_token.sub
         IN IF Len(subs) >= 3 THEN Err(MultipleNamesMsg)
            ELSE IF Len(subs) = 0 THEN Err(Msg("Unknown error."))
            ELSE IF Len(subs) = 1
            THEN IF subs[1].type = "Not"
                 THEN Err(Msg("An illegal not was found."))
                 ELSE Ok(subs[1])
            ELSE IF subs[1].type = "Not"
            THEN IF subs[2].type = "Not"
                 THEN Err(Msg("Not is continuous."))
                 ELSE Ok(Container("NotContainer", <<subs[2]>>))
            ELSE Err(MultipleNamesMsg)
    ELSE LET subs == sub_tokens_without_parenthesis(parent_token)
         IN IF subs = <<>> THEN Ok(parent_token)
            ELSE LET r == parse_operand_container_loop(subs, 1, <<>>)
                 IN IF ~r.ok THEN r
                    ELSE Ok(replace_subtoken(parent_token, r.val))

\* ------------------------------------------------------------------------
\* rule/condition_parser.rs: parse and parse_rest_parenthesis
\* ------------------------------------------------------------------------

RECURSIVE parse(_)
RECURSIVE parse_rest_parenthesis(_)
RECURSIVE parse_rest_parenthesis_loop(_, _, _)

parse_rest_parenthesis_loop(subs, i, new_sub_tokens) ==
    IF i > Len(subs) THEN Ok(new_sub_tokens)
    ELSE LET r == parse_rest_parenthesis(subs[i])
         IN IF ~r.ok THEN r
            ELSE parse_rest_parenthesis_loop(subs, i + 1, Append(new_sub_tokens, r.val))

parse_rest_parenthesis(token) ==
    IF token.type = "ParenthesisContainer" THEN parse(token.sub)
    ELSE LET subs == sub_tokens(token)
         IN IF subs = <<>> THEN Ok(token)
            ELSE LET r == parse_rest_parenthesis_loop(subs, 1, <<>>)
                 IN IF ~r.ok THEN r
                    ELSE Ok(replace_subtoken(token, r.val))

parse(tokens) ==
    LET r1 == parse_parenthesis(tokens)
    IN IF ~r1.ok THEN r1
       ELSE LET r2 == parse_and_or_operator(r1.val)
            IN IF ~r2.ok THEN r2
               ELSE LET r3 == parse_operand_container(r2.val)
                    IN IF ~r3.ok THEN r3
                       ELSE parse_rest_parenthesis(r3.val)

\* ------------------------------------------------------------------------
\* rule/selectionnodes.rs: the nodes of a selection tree
\* ------------------------------------------------------------------------

\* Yaml::Null, the select_value of every node that is no leaf.
YamlNull == [tag |-> "Null", str |-> <<>>, items |-> <<>>]

\* A SelectionNode: AndSelectionNode, AllSelectionNode and OrSelectionNode
\* hold child_nodes; NotSelectionNode holds its `node` and RefSelectionNode
\* the node its Arc `selection_node` shares with the name table, each as
\* the one element of child_nodes; LeafSelectionNode holds key_list and
\* select_value.
Node(kind, child_nodes) ==
    [kind |-> kind, child_nodes |-> child_nodes, key_list |-> <<>>,
     select_value |-> YamlNull]

AndSelectionNode(child_nodes) == Node("And", child_nodes)

AllSelectionNode(child_nodes) == Node("All", child_nodes)

OrSelectionNode(child_nodes) == Node("Or", child_nodes)

NotSelectionNode(select_node) == Node("Not", <<select_node>>)

RefSelectionNode(select_node) == Node("Ref", <<select_node>>)

LeafSelectionNode(keys, value_yaml) ==
    [kind |-> "Leaf", child_nodes |-> <<>>, key_list |-> keys,
     select_value |-> value_yaml]

\* ------------------------------------------------------------------------
\* rule/condition_parser.rs: to_selectnode
\* ------------------------------------------------------------------------

RECURSIVE to_selectnode(_, _)
RECURSIVE to_selectnode_loop(_, _, _, _)

to_selectnode_loop(subs, i, name_2_node, child_nodes) ==
    IF i > Len(subs) THEN Ok(child_nodes)
    ELSE LET r == to_selectnode(subs[i], name_2_node)
         IN IF ~r.ok THEN r
            ELSE to_selectnode_loop(subs, i + 1, name_2_node, Append(child_nodes, r.val))

\* to_selectnode without the test that the name is defined: the reference
\* gets the node of the name, or no node.
to_selectnode_unchecked(token, name_2_node) ==
    IF token.type = "SelectionReference"
    THEN Ok(RefSelectionNode(IF token.name \in DOMAIN name_2_node
                             THEN name_2_node[token.name]
                             ELSE OrSelectionNode(<<>>)))
    ELSE IF token.type = "AndContainer"
    THEN LET r == to_selectnode_loop(token.sub, 1, name_2_node, <<>>)
         IN IF ~r.ok THEN r ELSE Ok(AndSelectionNode(r.val))
    ELSE IF token.type = "OrContainer"
    THEN LET r == to_selectnode_loop(token.sub, 1, name_2_node, <<>>)
         IN IF ~r.ok THEN r ELSE Ok(OrSelectionNode(r.val))
    ELSE IF token.type = "NotContainer"
    THEN IF Len(token.sub) > 1 THEN Err(Msg("Unknown error"))
         ELSE LET r == to_selectnode(token.sub[1], name_2_node)
              IN IF ~r.ok THEN r ELSE Ok(NotSelectionNode(r.val))
    ELSE Err(Msg("Unknown error"))

to_selectnode(token, name_2_node) ==
    IF token.type = "SelectionReference"
    THEN IF token.name \in DOMAIN name_2_node
         THEN Ok(RefSelectionNode(name_2_node[token.name]))
         ELSE Err([prefix |-> "", arg |-> token.name, text |-> " is not defined."])
    ELSE IF token.type = "AndContainer"
    THEN LET r == to_selectnode_loop(token.sub, 1, name_2_node, <<>>)
         IN IF ~r.ok THEN r ELSE Ok(AndSelectionNode(r.val))
    ELSE IF token.type = "OrContainer"
    THEN LET r == to_selectnode_loop(token.sub, 1, name_2_node, <<>>)
         IN IF ~r.ok THEN r ELSE Ok(OrSelectionNode(r.val))
    ELSE IF token.type = "NotContainer"
    THEN IF Len(token.sub) > 1 THEN Err(Msg("Unknown error"))
         ELSE LET r == to_selectnode(token.sub[1], name_2_node)
              IN IF ~r.ok THEN r ELSE Ok(NotSelectionNode(r.val))
    ELSE Err(Msg("Unknown error"))

\* ------------------------------------------------------------------------
\* rule/condition_parser.rs: convert_condition and compile_condition
\* ------------------------------------------------------------------------

AllOf == <<"a", "l", "l", " ", "o", "f", " ">>

OneOf == <<"1", " ", "o", "f", " ">>

\* OF_SELECTION, `(all|1) of ([^*]+)\*`, anchored at position i of s: the
\* length of the match, 0 when there is none. After the keyword the class
\* [^*]+ runs to the first `*`, which must not come at once.
OF_SELECTION_at(s, i) ==
    LET rest == SubSeq(s, i, Len(s))
        kw == IF StartsWith(rest, AllOf) THEN Len(AllOf)
              ELSE IF StartsWith(rest, OneOf) THEN Len(OneOf)
              ELSE 0
        star == FindFrom(rest, <<"*">>, kw + 1)
    IN IF kw = 0 \/ star = 0 \/ star = kw + 1 THEN 0 ELSE star

\* Regex::find_iter: the non-overlapping matches, leftmost first.
RECURSIVE OF_SELECTION_find_iter(_, _)
OF_SELECTION_find_iter(s, i) ==
    IF i > Len(s) THEN <<>>
    ELSE LET n == OF_SELECTION_at(s, i)
         IN IF n = 0 THEN OF_SELECTION_find_iter(s, i + 1)
            ELSE <<SubSeq(s, i, i + n - 1)>> \o OF_SELECTION_find_iter(s, i + n)

\* The filter of convert_condition letting every name through.
FilterStartsWith_every(node_keys, prefix) == node_keys

\* The names of node_keys that start with the prefix, in node_keys' order.
RECURSIVE FilterStartsWith(_, _)
FilterStartsWith(node_keys, prefix) ==
    IF node_keys = <<>> THEN <<>>
    ELSE IF StartsWith(Head(node_keys), prefix)
    THEN <<Head(node_keys)>> \o FilterStartsWith(Tail(node_keys), prefix)
    ELSE FilterStartsWith(Tail(node_keys), prefix)

RECURSIVE convert_condition_loop(_, _, _, _)
convert_condition_loop(matches, k, node_keys, converted_str) ==
    IF k > Len(matches) THEN converted_str
    ELSE LET match_str == matches[k]
             sep == IF StartsWith(match_str, <<"a", "l", "l">>)
                    THEN <<" ", "a", "n", "d", " ">>
                    ELSE <<" ", "o", "r", " ">>
             target_node_key_prefix ==
                 Replace(Replace(Replace(match_str, <<"*">>, <<>>), AllOf, <<>>),
                         OneOf, <<>>)
             replaced_condition ==
                 Join(FilterStartsWith(node_keys, target_node_key_prefix), sep)
         IN convert_condition_loop(matches, k + 1, node_keys,
                Replace(converted_str, match_str,
                        <<"(">> \o replaced_condition \o <<")">>))

convert_condition(condition_str, node_keys) ==
    convert_condition_loop(OF_SELECTION_find_iter(condition_str, 1), 1, node_keys,
                           condition_str)

\* RE_PIPE, `\|.*`: the text from the first `|` to the end of its line,
\* <<>> when the string holds no `|`.
RE_PIPE(s) ==
    LET i == FindFrom(s, <<"|">>, 1)
        nl == IF i = 0 THEN 0 ELSE FindFrom(s, <<"\n">>, i)
    IN IF i = 0 THEN <<>>
       ELSE IF nl = 0 THEN SubSeq(s, i, Len(s))
       ELSE SubSeq(s, i, nl - 1)

\* The `?` after tokenize: its error is returned, or its tokens are parsed.
parse_tokenized(tokens) == IF ~tokens.ok THEN tokens ELSE parse(tokens.val)

\* The `?` after parse: its error is returned, or its token is lowered.
to_selectnode_parsed(parsed, name_2_node) ==
    IF ~parsed.ok THEN parsed ELSE to_selectnode(parsed.val, name_2_node)

compile_condition_body(condition_str, name_2_node) ==
    to_selectnode_parsed(parse_tokenized(tokenize(condition_str)), name_2_node)

\* The condition without what RE_PIPE captures: the first `|` and all that
\* follows it.
strip_pipe(condition_str) ==
    LET captured == RE_PIPE(condition_str)
    IN IF captured # <<>> THEN ReplaceFirst(condition_str, captured, <<>>)
       ELSE condition_str

\* The error of a failed compilation, prefixed.
with_parse_error_prefix(result) ==
    IF ~result.ok
    THEN Err([result.err EXCEPT !.prefix = "A condition parse error has occurred. "])
    ELSE result

\* node_keys is name_2_node.keys(): the names in the order the hash map
\* yields them.
compile_condition(condition_str, name_2_node, node_keys) ==
    with_parse_error_prefix(
        compile_condition_body(strip_pipe(convert_condition(condition_str, node_keys)),
                               name_2_node))

\* ------------------------------------------------------------------------
\* yaml_rust::Yaml
\* ------------------------------------------------------------------------

\* A Yaml value: its variant, the text of a scalar, the elements of an
\* Array or the entries (key, value) of a Hash in document order.
YamlString(s) == [tag |-> "String", str |-> s, items |-> <<>>]

YamlInteger(digits) == [tag |-> "Integer", str |-> digits, items |-> <<>>]

YamlArray(elements) == [tag |-> "Array", str |-> <<>>, items |-> elements]

YamlHash(entries) == [tag |-> "Hash", str |-> <<>>, items |-> entries]

YamlBadValue == [tag |-> "BadValue", str |-> <<>>, items |-> <<>>]

Entry(k, v) == [key |-> k, value |-> v]

None == [is_some |-> FALSE, v |-> <<>>]

Some(x) == [is_some |-> TRUE, v |-> x]

\* Yaml::as_str
as_str(yaml) == IF yaml.tag = "String" THEN Some(yaml.str) ELSE None

\* Index<&str> for Yaml: the value under the string key of a Hash, BadValue
\* for a missing key and for every other variant.
YamlIndex(yaml, key) ==
    IF yaml.tag = "Hash"
       /\ \E i \in 1..Len(yaml.items) : yaml.items[i].key = YamlString(key)
    THEN LET i == CHOOSE i \in 1..Len(yaml.items) :
                      yaml.items[i].key = YamlString(key)
         IN yaml.items[i].value
    ELSE YamlBadValue

\* ------------------------------------------------------------------------
\* rule/rulenode.rs: parse_selection_recursively
\* ------------------------------------------------------------------------

\* What `hash_key.as_str().unwrap()` leaves when the key is no string: the
\* thread panics. The builder's result then holds this marker.
Panicked == Node("Panic", <<>>)

RECURSIVE has_panicked(_)
has_panicked(node) ==
    \/ node.kind = "Panic"
    \/ \E i \in 1..Len(node.child_nodes) : has_panicked(node.child_nodes[i])

Pipe_all == <<"|", "a", "l", "l">>

RECURSIVE parse_selection_recursively(_, _)
parse_selection_recursively(key_list, yaml) ==
    IF yaml.tag = "Hash"
    THEN AndSelectionNode(
             [i \in 1..Len(yaml.items) |->
                 LET hash_key == yaml.items[i].key
                     child_yaml == yaml.items[i].value
                 IN IF ~as_str(hash_key).is_some THEN Panicked
                    ELSE parse_selection_recursively(
                             Append(key_list, as_str(hash_key).v), child_yaml)])
    ELSE IF yaml.tag = "Array" /\ key_list # <<>>
            /\ EndsWith(key_list[1], Pipe_all) /\ key_list[1] # Pipe_all
    THEN AndSelectionNode(
             [i \in 1..Len(yaml.items) |->
                 parse_selection_recursively(key_list, yaml.items[i])])
    ELSE IF yaml.tag = "Array" /\ key_list # <<>> /\ key_list[1] = Pipe_all
    THEN AllSelectionNode(
             [i \in 1..Len(yaml.items) |->
                 parse_selection_recursively(key_list, yaml.items[i])])
    ELSE IF yaml.tag = "Array"
    THEN OrSelectionNode(
             [i \in 1..Len(yaml.items) |->
                 parse_selection_recursively(key_list, yaml.items[i])])
    ELSE LeafSelectionNode(key_list, yaml)

parse_selection(selection_yaml) ==
    Some(parse_selection_recursively(<<>>, selection_yaml))

\* ------------------------------------------------------------------------
\* rule/selectionnodes.rs: init and select
\* ------------------------------------------------------------------------

\* SelectionNode::init: the error strings of the node, <<>> for Ok(()).
RECURSIVE SelectionNode_init(_)
RECURSIVE SelectionNode_init_fold(_, _)

SelectionNode_init_fold(child_nodes, i) ==
    IF i > Len(child_nodes) THEN <<>>
    ELSE SelectionNode_init(child_nodes[i]) \o SelectionNode_init_fold(child_nodes, i + 1)

SelectionNode_init(node) ==
    IF node.kind \in {"And", "All", "Or"}
    THEN SelectionNode_init_fold(node.child_nodes, 1)
    ELSE <<>>

\* LeafSelectionNode::select
LeafSelectionNode_select(node, event_record) == TRUE

\* SelectionNode::select, by the variant of the node.
RECURSIVE select(_, _)

\* select with an Or node that is true when it has no child.
select_or_vacuous(node, event_record) ==
    IF node.kind \in {"And", "All", "Or"}
    THEN \A i \in 1..Len(node.child_nodes) : select(node.child_nodes[i], event_record)
    ELSE IF node.kind = "Not"
    THEN ~select(node.child_nodes[1], event_record)
    ELSE IF node.kind = "Ref"
    THEN select(node.child_nodes[1], event_record)
    ELSE LeafSelectionNode_select(node, event_record)

select(node, event_record) ==
    IF node.kind \in {"And", "All"}
    THEN \A i \in 1..Len(node.child_nodes) : select(node.child_nodes[i], event_record)
    ELSE IF node.kind = "Or"
    THEN \E i \in 1..Len(node.child_nodes) : select(node.child_nodes[i], event_record)
    ELSE IF node.kind = "Not"
    THEN ~select(node.child_nodes[1], event_record)
    ELSE IF node.kind = "Ref"
    THEN select(node.child_nodes[1], event_record)
    ELSE LeafSelectionNode_select(node, event_record)

\* ------------------------------------------------------------------------
\* std::net::IpAddr and cidr_utils::cidr::IpCidr, for IPv4 in dotted form
\* ------------------------------------------------------------------------

\* str::split on a one-character separator: the parts, one more than the
\* separators.
RECURSIVE Split(_, _)
Split(s, sep) ==
    LET i == FindFrom(s, <<sep>>, 1)
    IN IF i = 0 THEN <<s>>
       ELSE <<SubSeq(s, 1, i - 1)>> \o Split(SubSeq(s, i + 1, Len(s)), sep)

DecimalDigits == <<"0", "1", "2", "3", "4", "5", "6", "7", "8", "9">>

IsDecimal(s) ==
    s # <<>> /\ \A i \in 1..Len(s) : \E d \in 1..10 : DecimalDigits[d] = s[i]

\* The number a string of decimal digits denotes.
RECURSIVE DecimalValue(_)
DecimalValue(s) ==
    IF s = <<>> THEN 0
    ELSE 10 * DecimalValue(SubSeq(s, 1, Len(s) - 1))
         + (CHOOSE d \in 0..9 : DecimalDigits[d + 1] = s[Len(s)])

\* One part of a dotted address: one to three digits, no leading zero, at
\* most 255.
IsOctet(s) ==
    /\ IsDecimal(s)
    /\ Len(s) <= 3
    /\ (Len(s) > 1 => s[1] # "0")
    /\ DecimalValue(s) <= 255

\* IpAddr::from_str: Ok of the four octets, or Err.
IpAddr_from_str(s) ==
    LET parts == Split(s, ".")
    IN IF Len(parts) = 4 /\ \A i \in 1..4 : IsOctet(parts[i])
       THEN Ok([i \in 1..4 |-> DecimalValue(parts[i])])
       ELSE Err(Msg("invalid IP address syntax"))

\* IpCidr::from_str of `a.b.c.d/n`, n at most 32, and of `a.b.c.d` (the
\* one address): Ok of the address and the number of network bits, or Err.
IpCidr_from_str(s) ==
    LET parts == Split(s, "/")
        addr == IpAddr_from_str(parts[1])
    IN IF Len(parts) = 1 /\ addr.ok THEN Ok([addr |-> addr.val, bits |-> 32])
       ELSE IF /\ Len(parts) = 2 /\ addr.ok
               /\ IsDecimal(parts[2]) /\ Len(parts[2]) <= 2
               /\ DecimalValue(parts[2]) <= 32
       THEN Ok([addr |-> addr.val, bits |-> DecimalValue(parts[2])])
       ELSE Err(Msg("incorrect CIDR"))

Pow2 == <<1, 2, 4, 8, 16, 32, 64, 128, 256>>

\* IpCidr::contains: the address has the network's first `bits` bits.
IpCidr_contains(network, ip) ==
    LET whole == network.bits \div 8
        rest == network.bits % 8
    IN /\ \A i \in 1..whole : ip[i] = network.addr[i]
       /\ rest > 0 =>
              (ip[whole + 1] \div Pow2[8 - rest + 1])
                = (network.addr[whole + 1] \div Pow2[8 - rest + 1])

\* ------------------------------------------------------------------------
\* rule/matchers.rs: DefaultMatcher
\* ------------------------------------------------------------------------

UpperChars ==
    <<"A", "B", "C", "D", "E", "F", "G", "H", "I", "J", "K", "L", "M", "N",
      "O", "P", "Q", "R", "S", "T", "U", "V", "W", "X", "Y", "Z">>

LowerChars ==
    <<"a", "b", "c", "d", "e", "f", "g", "h", "i", "j", "k", "l", "m", "n",
      "o", "p", "q", "r", "s", "t", "u", "v", "w", "x", "y", "z">>

\* u8::to_ascii_lowercase
to_ascii_lowercase(c) ==
    IF \E i \in DOMAIN UpperChars : UpperChars[i] = c
    THEN LowerChars[CHOOSE i \in DOMAIN UpperChars : UpperChars[i] = c]
    ELSE c

\* u8::to_ascii_uppercase, on every character of a string.
to_uppercase(s) ==
    [i \in 1..Len(s) |->
        IF \E k \in DOMAIN LowerChars : LowerChars[k] = s[i]
        THEN UpperChars[CHOOSE k \in DOMAIN LowerChars : LowerChars[k] = s[i]]
        ELSE s[i]]

\* str::to_lowercase, on the characters of the model.
to_lowercase(s) == [i \in 1..Len(s) |-> to_ascii_lowercase(s[i])]

\* str::eq_ignore_ascii_case
eq_ignore_ascii_case(a, b) == to_lowercase(a) = to_lowercase(b)

\* The long s, U+017F, one character written by its code point.
long_s == "U+017F"

\* The characters of the model that are not ASCII, two bytes each.
NonAsciiChars == {"é", long_s}

\* str::is_ascii
is_ascii(s) == \A i \in 1..Len(s) : s[i] \notin NonAsciiChars

\* str::len, in bytes.
ByteLen(s) == Len(s) + Cardinality({i \in 1..Len(s) : s[i] \in NonAsciiChars})

\* contains_str
contains_str(input, check) == FindFrom(input, check, 1) # 0

\* A FastMatch: Exact, StartsWith, EndsWith, Contains or AllOnly of a string.
FastMatch(type, s) == [type |-> type, s |-> s]

\* DefaultMatcher::eq_ignore_case
eq_ignore_case(event_value_str, match_str) ==
    IF ByteLen(match_str) = ByteLen(event_value_str)
    THEN eq_ignore_ascii_case(match_str, event_value_str)
    ELSE FALSE

\* DefaultMatcher::starts_with_ignore_case
starts_with_ignore_case(event_value_str, match_str) ==
    IF ByteLen(match_str) > ByteLen(event_value_str) THEN Some(FALSE)
    ELSE IF is_ascii(event_value_str)
    THEN Some(eq_ignore_ascii_case(match_str,
                                   SubSeq(event_value_str, 1, ByteLen(match_str))))
    ELSE None

\* DefaultMatcher::ends_with_ignore_case
ends_with_ignore_case(event_value_str, match_str) ==
    IF ByteLen(match_str) > ByteLen(event_value_str) THEN Some(FALSE)
    ELSE IF is_ascii(event_value_str)
    THEN Some(eq_ignore_ascii_case(
                  match_str,
                  SubSeq(event_value_str,
                         Len(event_value_str) - ByteLen(match_str) + 1,
                         Len(event_value_str))))
    ELSE None

\* The closure is_literal_asterisk of convert_to_fast_match.
is_literal_asterisk(s) ==
    EndsWith(s, <<"\\", "*">>) /\ ~EndsWith(s, <<"\\", "\\", "*">>)

\* s.replace(r"\\", r"\")
unescape_backslash(s) == Replace(s, <<"\\", "\\">>, <<"\\">>)

\* DefaultMatcher::convert_to_fast_match: Some of a list of one FastMatch,
\* or None.
convert_to_fast_match(s, ignore_case) ==
    LET wildcard_count == Cardinality({i \in 1..Len(s) : s[i] = "*"})
        asterisk == <<"*">>
        allOnly == <<"a", "l", "l", "O", "n", "l", "y", "*">>
        cased(x) == IF ignore_case THEN to_lowercase(x) ELSE x
    IN IF \/ contains_str(s, <<"?">>)
          \/ EndsWith(s, <<"\\", "\\", "\\", "*">>)
          \/ (~is_ascii(s) /\ contains_str(s, asterisk))
       THEN None
       ELSE IF StartsWith(s, allOnly) /\ EndsWith(s, asterisk) /\ wildcard_count = 2
       THEN Some(<<FastMatch("AllOnly",
                             cased(unescape_backslash(SubSeq(s, 9, Len(s) - 1))))>>)
       ELSE IF /\ StartsWith(s, asterisk) /\ EndsWith(s, asterisk)
               /\ wildcard_count = 2 /\ ~is_literal_asterisk(s)
       THEN Some(<<FastMatch("Contains",
                             cased(unescape_backslash(SubSeq(s, 2, Len(s) - 1))))>>)
       ELSE IF StartsWith(s, asterisk) /\ wildcard_count = 1 /\ ~is_literal_asterisk(s)
       THEN Some(<<FastMatch("EndsWith", unescape_backslash(SubSeq(s, 2, Len(s))))>>)
       ELSE IF EndsWith(s, asterisk) /\ wildcard_count = 1 /\ ~is_literal_asterisk(s)
       THEN Some(<<FastMatch("StartsWith",
                             unescape_backslash(SubSeq(s, 1, Len(s) - 1)))>>)
       ELSE IF contains_str(s, asterisk) THEN None
       ELSE Some(<<FastMatch("Exact", unescape_backslash(s))>>)

\* A PipeElement: its variant and, for Cidr, the result of IpCidr::from_str.
PipeElement(type) == [type |-> type, ip_result |-> Err(Msg(""))]

PipeElement_Cidr(ip_result) == [type |-> "Cidr", ip_result |-> ip_result]

pipe_startswith == <<"s", "t", "a", "r", "t", "s", "w", "i", "t", "h">>

pipe_endswith == <<"e", "n", "d", "s", "w", "i", "t", "h">>

pipe_contains == <<"c", "o", "n", "t", "a", "i", "n", "s">>

pipe_re == <<"r", "e">>

pipe_base64offset ==
    <<"b", "a", "s", "e", "6", "4", "o", "f", "f", "s", "e", "t">>

pipe_cidr == <<"c", "i", "d", "r">>

pipe_all == <<"a", "l", "l">>

pipe_allOnly == <<"a", "l", "l", "O", "n", "l", "y">>

\* PipeElement::new with a network that does not parse turned into an error.
PipeElement_new_checked(key, pattern) ==
    IF key = pipe_startswith THEN Ok(PipeElement("Startswith"))
    ELSE IF key = pipe_endswith THEN Ok(PipeElement("Endswith"))
    ELSE IF key = pipe_contains THEN Ok(PipeElement("Contains"))
    ELSE IF key = pipe_re THEN Ok(PipeElement("Re"))
    ELSE IF key = pipe_base64offset THEN Ok(PipeElement("Base64offset"))
    ELSE IF key = pipe_cidr
    THEN IF IpCidr_from_str(pattern).ok
         THEN Ok(PipeElement_Cidr(IpCidr_from_str(pattern)))
         ELSE Err(Msg("network"))
    ELSE IF key = pipe_all THEN Ok(PipeElement("All"))
    ELSE IF key = pipe_allOnly THEN Ok(PipeElement("AllOnly"))
    ELSE Err(Msg("An unknown pipe element was specified. key:"))

\* PipeElement::new
PipeElement_new(key, pattern) ==
    IF key = pipe_startswith THEN Ok(PipeElement("Startswith"))
    ELSE IF key = pipe_endswith THEN Ok(PipeElement("Endswith"))
    ELSE IF key = pipe_contains THEN Ok(PipeElement("Contains"))
    ELSE IF key = pipe_re THEN Ok(PipeElement("Re"))
    ELSE IF key = pipe_base64offset THEN Ok(PipeElement("Base64offset"))
    ELSE IF key = pipe_cidr THEN Ok(PipeElement_Cidr(IpCidr_from_str(pattern)))
    ELSE IF key = pipe_all THEN Ok(PipeElement("All"))
    ELSE IF key = pipe_allOnly THEN Ok(PipeElement("AllOnly"))
    ELSE Err(Msg("An unknown pipe element was specified. key:"))

\* The closure fn_add_asterisk_end of pipe_pattern.
fn_add_asterisk_end(patt) ==
    IF EndsWith(patt, <<"/", "/", "*">>) THEN patt
    ELSE IF EndsWith(patt, <<"/", "*">>) THEN patt \o <<"*">>
    ELSE IF EndsWith(patt, <<"*">>) THEN patt
    ELSE IF EndsWith(patt, <<"\\">>) THEN patt \o <<"\\", "*">>
    ELSE patt \o <<"*">>

\* The closure fn_add_asterisk_begin of pipe_pattern.
fn_add_asterisk_begin(patt) ==
    IF StartsWith(patt, <<"/", "/", "*">>) THEN patt
    ELSE IF StartsWith(patt, <<"/", "*">>) THEN <<"*">> \o patt
    ELSE IF StartsWith(patt, <<"*">>) THEN patt
    ELSE <<"*">> \o patt

\* PipeElement::pipe_pattern, for every pipe but Wildcard: the pattern as
\* text.
pipe_pattern(pipe, pattern) ==
    IF pipe.type = "Startswith" THEN fn_add_asterisk_end(pattern)
    ELSE IF pipe.type = "Endswith" THEN fn_add_asterisk_begin(pattern)
    ELSE IF pipe.type = "Contains"
    THEN fn_add_asterisk_end(fn_add_asterisk_begin(pattern))
    ELSE pattern

\* DefaultMatcher::from_pattern_to_regex_str: the pattern folded through the
\* pipes. The regex is kept as its source: the text the pipes before
\* Wildcard leave, and whether Wildcard then lowers it (pipe_pattern_wildcard)
\* or the text is the regex itself.
RECURSIVE from_pattern_to_regex_str(_, _)
from_pattern_to_regex_str(pattern, pipes) ==
    IF pipes = <<>> THEN [wildcard |-> FALSE, text |-> pattern]
    ELSE IF Head(pipes).type = "Wildcard" THEN [wildcard |-> TRUE, text |-> pattern]
    ELSE from_pattern_to_regex_str(pipe_pattern(Head(pipes), pattern), Tail(pipes))

\* Regex::new on the text of a `re` pattern made of literal characters, `.`,
\* `*` after a character, and parentheses: it fails on a parenthesis without
\* its partner and on a `*` with nothing to repeat.
Regex_new_ok(text) ==
    /\ LET depth(k) == Cardinality({i \in 1..k : text[i] = "("})
                         - Cardinality({i \in 1..k : text[i] = ")"})
       IN (\A k \in 1..Len(text) : depth(k) >= 0) /\ depth(Len(text)) = 0
    /\ \A k \in 1..Len(text) :
           text[k] = "*" => (k > 1 /\ text[k - 1] # "(")

\* The printable ASCII characters, from the space (byte 32) to the tilde
\* (126); the grave accent (96) is left out of the characters of the model.
AsciiPrintable ==
    <<" ", "!", "\"", "#", "$", "%", "&", "'", "(", ")", "*", "+", ",", "-", ".", "/">>
    \o DecimalDigits
    \o <<":", ";", "<", "=", ">", "?", "@">>
    \o UpperChars
    \o <<"[", "\\", "]", "^", "_", "grave">>
    \o LowerChars
    \o <<"{", "|", "}", "~">>

\* str::as_bytes: the bytes of a character, and of a string.
ByteOf(c) ==
    IF c \in NonAsciiChars THEN <<195, 169>>
    ELSE <<31 + (CHOOSE i \in 1..Len(AsciiPrintable) : AsciiPrintable[i] = c)>>

RECURSIVE as_bytes(_)
as_bytes(s) == IF s = <<>> THEN <<>> ELSE ByteOf(Head(s)) \o as_bytes(Tail(s))

Base64Alphabet == UpperChars \o LowerChars \o DecimalDigits \o <<"+", "/">>

\* general_purpose::STANDARD.encode_slice: base64 with `=` padding.
RECURSIVE base64_encode(_)
base64_encode(bytes) ==
    IF bytes = <<>> THEN <<>>
    ELSE IF Len(bytes) = 1
    THEN <<Base64Alphabet[(bytes[1] \div 4) + 1],
           Base64Alphabet[((bytes[1] % 4) * 16) + 1], "=", "=">>
    ELSE IF Len(bytes) = 2
    THEN <<Base64Alphabet[(bytes[1] \div 4) + 1],
           Base64Alphabet[((bytes[1] % 4) * 16 + (bytes[2] \div 16)) + 1],
           Base64Alphabet[((bytes[2] % 16) * 4) + 1], "=">>
    ELSE <<Base64Alphabet[(bytes[1] \div 4) + 1],
           Base64Alphabet[((bytes[1] % 4) * 16 + (bytes[2] \div 16)) + 1],
           Base64Alphabet[((bytes[2] % 16) * 4 + (bytes[3] \div 64)) + 1],
           Base64Alphabet[(bytes[3] % 64) + 1]>>
         \o base64_encode(SubSeq(bytes, 4, Len(bytes)))

\* A slice s[begin..end] of Rust, indexes from 0 and the end excluded: it
\* panics when begin is after end or end after the length.
Slice(s, begin, end) ==
    IF begin > end \/ end > Len(s) \/ end < 0
    THEN [panicked |-> TRUE, val |-> <<>>]
    ELSE [panicked |-> FALSE, val |-> SubSeq(s, begin + 1, end)]

\* The body of `for i in 0..3` of DefaultMatcher::init for
\* base64offset|contains: the encoded form of i zero bytes and the pattern,
\* without the characters the padding and the offset make uncertain.
b64_offset_contents(pattern, i) ==
    LET filtered_null_chr == base64_encode([k \in 1..i |-> 0] \o as_bytes(pattern))
        found == FindFrom(filtered_null_chr, <<"=">>, 1)
        padding == (IF found = 0 THEN 0 ELSE found - 1) % 4
        len == Len(filtered_null_chr)
    IN IF padding = 2
       THEN Slice(filtered_null_chr, IF i = 0 THEN 0 ELSE i + 1, len - 3)
       ELSE IF padding = 3
       THEN Slice(filtered_null_chr, IF i = 0 THEN 0 ELSE i + 1, len - 2)
       ELSE Slice(filtered_null_chr, IF i = 0 THEN 0 ELSE i + 1, len)

\* The fast matches of base64offset|contains for the offsets i..2, after
\* those collected: a panic of a slice ends the loop.
RECURSIVE base64offset_fastmatches(_, _, _)
base64offset_fastmatches(pattern, i, fastmatches) ==
    IF i > 2 THEN [panicked |-> FALSE, val |-> fastmatches]
    ELSE LET c == b64_offset_contents(pattern, i)
         IN IF c.panicked THEN [panicked |-> TRUE, val |-> <<>>]
            ELSE base64offset_fastmatches(
                     pattern, i + 1,
                     fastmatches
                       \o (IF convert_to_fast_match(<<"*">> \o c.val \o <<"*">>, FALSE).is_some
                           THEN convert_to_fast_match(<<"*">> \o c.val \o <<"*">>, FALSE).v
                           ELSE <<>>))

\* DefaultMatcher::new. re is the source of the compiled regex.
DefaultMatcher_new == [re |-> None, fast_match |-> None, pipes |-> <<>>, key_list |-> <<>>]

\* The text of a scalar pattern: Some for Boolean, Integer, Real and String.
yaml_value(select_value) ==
    IF select_value.tag \in {"Boolean", "Integer", "Real", "String"}
    THEN Some(select_value.str)
    ELSE None

\* What DefaultMatcher::init leaves: the matcher and Ok(()), the errors of
\* Err, or a panic.
MatcherOk(self) == [panicked |-> FALSE, ok |-> TRUE, val |-> self, err |-> <<>>]

MatcherErr(self, errs) == [panicked |-> FALSE, ok |-> FALSE, val |-> self, err |-> errs]

MatcherPanic(self) == [panicked |-> TRUE, ok |-> FALSE, val |-> self, err |-> <<>>]

\* The end of init with the regex left out for every matcher whose first
\* fast match is Exact or Contains, an empty key list included.
DefaultMatcher_init_pattern_noregex(self, pattern, fast_match) ==
    IF /\ fast_match.is_some
       /\ fast_match.v[1].type \in {"Exact", "Contains"}
    THEN MatcherOk([self EXCEPT !.fast_match = fast_match])
    ELSE LET is_re == \E i \in 1..Len(self.pipes) : self.pipes[i].type = "Re"
             pipes == IF is_re THEN self.pipes
                      ELSE Append(self.pipes, PipeElement("Wildcard"))
             re == from_pattern_to_regex_str(pattern, pipes)
         IN IF ~re.wildcard /\ ~Regex_new_ok(re.text)
            THEN MatcherErr([self EXCEPT !.fast_match = fast_match, !.pipes = pipes],
                            <<[prefix |-> "Cannot parse regex. [regex:", arg |-> re.text,
                               text |-> ", key:]"]>>)
            ELSE MatcherOk([self EXCEPT !.fast_match = fast_match, !.pipes = pipes,
                                        !.re = Some(re)])

\* The end of DefaultMatcher::init: no regex when the first fast match is
\* Exact or Contains and the key list is not empty; otherwise Wildcard is
\* added to the pipes unless `re` is among them, and the regex is compiled
\* from the pattern the pipes give.
DefaultMatcher_init_pattern(self, pattern, fast_match) ==
    IF /\ fast_match.is_some
       /\ fast_match.v[1].type \in {"Exact", "Contains"}
       /\ self.key_list # <<>>
    THEN MatcherOk([self EXCEPT !.fast_match = fast_match])
    ELSE LET is_re == \E i \in 1..Len(self.pipes) : self.pipes[i].type = "Re"
             pipes == IF is_re THEN self.pipes
                      ELSE Append(self.pipes, PipeElement("Wildcard"))
             re == from_pattern_to_regex_str(pattern, pipes)
         IN IF ~re.wildcard /\ ~Regex_new_ok(re.text)
            THEN MatcherErr([self EXCEPT !.fast_match = fast_match, !.pipes = pipes],
                            <<[prefix |-> "Cannot parse regex. [regex:", arg |-> re.text,
                               text |-> ", key:]"]>>)
            ELSE MatcherOk([self EXCEPT !.fast_match = fast_match, !.pipes = pipes,
                                        !.re = Some(re)])

\* The fast matches of `base64offset|contains`, or the panic of a slice.
DefaultMatcher_init_base64offset(self, pattern, fastmatches) ==
    IF fastmatches.panicked THEN MatcherPanic(self)
    ELSE DefaultMatcher_init_pattern(
             self, pattern,
             IF fastmatches.val # <<>> THEN Some(fastmatches.val) ELSE None)

\* The fast match of init with any number of pipes let through.
DefaultMatcher_init_fast_match_unbounded(self, pattern) ==
    IF Len(self.pipes) = 0
    THEN DefaultMatcher_init_pattern(self, pattern, convert_to_fast_match(pattern, TRUE))
    ELSE IF Len(self.pipes) = 1
    THEN DefaultMatcher_init_pattern(
             self, pattern,
             IF self.pipes[1].type = "Startswith"
             THEN convert_to_fast_match(pattern \o <<"*">>, TRUE)
             ELSE IF self.pipes[1].type = "Endswith"
             THEN convert_to_fast_match(<<"*">> \o pattern, TRUE)
             ELSE IF self.pipes[1].type = "Contains"
             THEN convert_to_fast_match(<<"*">> \o pattern \o <<"*">>, TRUE)
             ELSE IF self.pipes[1].type = "AllOnly"
             THEN convert_to_fast_match(pipe_allOnly \o <<"*">> \o pattern \o <<"*">>, TRUE)
             ELSE None)
    ELSE IF Len(self.pipes) = 2
    THEN IF self.pipes[1].type = "Base64offset" /\ self.pipes[2].type = "Contains"
         THEN DefaultMatcher_init_base64offset(
                  self, pattern, base64offset_fastmatches(pattern, 0, <<>>))
         ELSE IF self.pipes[1].type = "Contains" /\ self.pipes[2].type = "All"
         THEN DefaultMatcher_init_pattern(
                  self, pattern, convert_to_fast_match(<<"*">> \o pattern \o <<"*">>, TRUE))
         ELSE DefaultMatcher_init_pattern(self, pattern, None)
    ELSE DefaultMatcher_init_pattern(self, pattern, None)

\* DefaultMatcher::init from `let n = self.pipes.len()`: the fast match the
\* number and the kind of the pipes give.
DefaultMatcher_init_fast_match(self, pattern) ==
    IF Len(self.pipes) = 0
    THEN DefaultMatcher_init_pattern(self, pattern, convert_to_fast_match(pattern, TRUE))
    ELSE IF Len(self.pipes) = 1
    THEN DefaultMatcher_init_pattern(
             self, pattern,
             IF self.pipes[1].type = "Startswith"
             THEN convert_to_fast_match(pattern \o <<"*">>, TRUE)
             ELSE IF self.pipes[1].type = "Endswith"
             THEN convert_to_fast_match(<<"*">> \o pattern, TRUE)
             ELSE IF self.pipes[1].type = "Contains"
             THEN convert_to_fast_match(<<"*">> \o pattern \o <<"*">>, TRUE)
             ELSE IF self.pipes[1].type = "AllOnly"
             THEN convert_to_fast_match(pipe_allOnly \o <<"*">> \o pattern \o <<"*">>, TRUE)
             ELSE None)
    ELSE IF Len(self.pipes) = 2
    THEN IF self.pipes[1].type = "Base64offset" /\ self.pipes[2].type = "Contains"
         THEN DefaultMatcher_init_base64offset(
                  self, pattern, base64offset_fastmatches(pattern, 0, <<>>))
         ELSE IF self.pipes[1].type = "Contains" /\ self.pipes[2].type = "All"
         THEN DefaultMatcher_init_pattern(
                  self, pattern, convert_to_fast_match(<<"*">> \o pattern \o <<"*">>, TRUE))
         ELSE DefaultMatcher_init_pattern(self, pattern, None)
    ELSE MatcherErr(self, <<Msg("Multiple pipe elements cannot be used. key:")>>)

\* The pipe names of a key list: the parts of its first key after the
\* first, `all` after an empty field name alone read as `allOnly`.
keys_without_head(key_list) ==
    LET keys_all == Split(IF key_list = <<>> THEN <<>> ELSE key_list[1], "|")
    IN IF keys_all[1] = <<>> /\ Len(keys_all) = 2 /\ keys_all[2] = pipe_all
       THEN <<pipe_allOnly>>
       ELSE Tail(keys_all)

\* The loop over the pipe names: the errors of PipeElement::new are
\* returned together, or the elements become the pipes.
DefaultMatcher_init_pipes(self, pattern, pipe_elements) ==
    IF \E i \in 1..Len(pipe_elements) : ~pipe_elements[i].ok
    THEN LET failed(r) == ~r.ok
             err_msges == SelectSeq(pipe_elements, failed)
         IN MatcherErr(self, [i \in 1..Len(err_msges) |-> err_msges[i].err])
    ELSE DefaultMatcher_init_fast_match(
             [self EXCEPT !.pipes = [i \in 1..Len(pipe_elements) |-> pipe_elements[i].val]],
             pattern)

\* The pipe elements of the pipe names.
pipe_elements_of(keys, pattern) ==
    [i \in 1..Len(keys) |-> PipeElement_new(keys[i], pattern)]

\* DefaultMatcher::init
DefaultMatcher_init(self, key_list, select_value) ==
    IF select_value.tag = "Null" THEN MatcherOk([self EXCEPT !.key_list = key_list])
    ELSE IF ~yaml_value(select_value).is_some
    THEN MatcherErr([self EXCEPT !.key_list = key_list],
                    <<Msg("An unknown error occured. [key:]")>>)
    ELSE DefaultMatcher_init_pipes(
             [self EXCEPT !.key_list = key_list],
             yaml_value(select_value).v,
             pipe_elements_of(keys_without_head(key_list), yaml_value(select_value).v))

\* The simple case folding of the regex flag (?i): a letter and its other
\* case are one, and so are s and the long s.
simple_fold(c) == IF c = long_s THEN "s" ELSE to_ascii_lowercase(c)

\* The regex pipe_pattern_wildcard makes of a wildcard pattern, matched
\* against the whole of a value without regard to case: `*` is any run of
\* characters, `?` any one character but a line feed, `\*` and `\?` the characters
\* themselves, `\\*` and `\\?` a backslash and then the wildcard.
RECURSIVE wildcard_fullmatch(_, _)
wildcard_fullmatch(pattern, value) ==
    IF pattern = <<>> THEN value = <<>>
    ELSE IF Len(pattern) >= 3 /\ pattern[1] = "\\" /\ pattern[2] = "\\"
            /\ pattern[3] \in {"*", "?"}
    THEN /\ value # <<>>
         /\ value[1] = "\\"
         /\ wildcard_fullmatch(SubSeq(pattern, 3, Len(pattern)), Tail(value))
    ELSE IF Len(pattern) >= 2 /\ pattern[1] = "\\" /\ pattern[2] \in {"*", "?"}
    THEN /\ value # <<>>
         /\ value[1] = pattern[2]
         /\ wildcard_fullmatch(SubSeq(pattern, 3, Len(pattern)), Tail(value))
    ELSE IF pattern[1] = "*"
    THEN \E k \in 0..Len(value) :
             wildcard_fullmatch(Tail(pattern), SubSeq(value, k + 1, Len(value)))
    ELSE IF pattern[1] = "?"
    THEN /\ value # <<>>
         /\ value[1] # "\n"
         /\ wildcard_fullmatch(Tail(pattern), Tail(value))
    ELSE /\ value # <<>>
         /\ simple_fold(value[1]) = simple_fold(pattern[1])
         /\ wildcard_fullmatch(Tail(pattern), Tail(value))

\* A regex of the `re` pipe matched against the whole of a value: a
\* character is itself, `.` is any character but a line feed, `*` repeats
\* the character before it, parentheses group.
RECURSIVE regex_fullmatch(_, _)
regex_fullmatch(regex, value) ==
    LET atom(c, x) == IF c = "." THEN x # "\n" ELSE c = x
    IN IF regex = <<>> THEN value = <<>>
       ELSE IF regex[1] \in {"(", ")"} THEN regex_fullmatch(Tail(regex), value)
       ELSE IF Len(regex) >= 2 /\ regex[2] = "*"
       THEN \E k \in 0..Len(value) :
                /\ \A j \in 1..k : atom(regex[1], value[j])
                /\ regex_fullmatch(SubSeq(regex, 3, Len(regex)),
                                   SubSeq(value, k + 1, Len(value)))
       ELSE /\ value # <<>>
            /\ atom(regex[1], value[1])
            /\ regex_fullmatch(Tail(regex), Tail(value))

\* The compiled regex matches the whole of the text.
regex_matches_whole(re, text) ==
    IF re.wildcard THEN wildcard_fullmatch(re.text, text)
    ELSE regex_fullmatch(re.text, text)

\* DefaultMatcher::is_regex_fullmatch
is_regex_fullmatch(self, value) == regex_matches_whole(self.re.v, value)

\* Regex::is_match: the regex matches some part of the value.
is_regex_match(self, value) ==
    \E i \in 1..(Len(value) + 1) : \E j \in (i - 1)..Len(value) :
        regex_matches_whole(self.re.v, SubSeq(value, i, j))

\* The fast path with the value of a single Contains entry taken as given.
fast_match_result_cased(fast_matcher, event_value_str) ==
    IF Len(fast_matcher) = 1
    THEN IF fast_matcher[1].type = "Exact"
         THEN Some(eq_ignore_case(event_value_str, fast_matcher[1].s))
         ELSE IF fast_matcher[1].type = "StartsWith"
         THEN starts_with_ignore_case(event_value_str, fast_matcher[1].s)
         ELSE IF fast_matcher[1].type = "EndsWith"
         THEN ends_with_ignore_case(event_value_str, fast_matcher[1].s)
         ELSE Some(contains_str(event_value_str, fast_matcher[1].s))
    ELSE Some(\E i \in 1..Len(fast_matcher) :
                  /\ fast_matcher[i].type = "Contains"
                  /\ contains_str(event_value_str, fast_matcher[i].s))

\* The fast path of is_match: Some(result), or None when the regex decides.
fast_match_result(fast_matcher, event_value_str) ==
    IF Len(fast_matcher) = 1
    THEN IF fast_matcher[1].type = "Exact"
         THEN Some(eq_ignore_case(event_value_str, fast_matcher[1].s))
         ELSE IF fast_matcher[1].type = "StartsWith"
         THEN starts_with_ignore_case(event_value_str, fast_matcher[1].s)
         ELSE IF fast_matcher[1].type = "EndsWith"
         THEN ends_with_ignore_case(event_value_str, fast_matcher[1].s)
         ELSE Some(contains_str(to_lowercase(event_value_str), fast_matcher[1].s))
    ELSE Some(\E i \in 1..Len(fast_matcher) :
                  /\ fast_matcher[i].type = "Contains"
                  /\ contains_str(event_value_str, fast_matcher[i].s))

\* What is_match leaves: the boolean returned, or the panic of an unwrap.
Returns(b) == [panicked |-> FALSE, val |-> b]

Panics == [panicked |-> TRUE, val |-> FALSE]

\* The Cidr branch with every address taken as one of the network.
cidr_match_parsed(ip_result, event_value) ==
    IF ~ip_result.ok THEN FALSE
    ELSE IpAddr_from_str(IF event_value.is_some THEN event_value.v ELSE <<>>).ok

\* The first branch of is_match, for a first pipe that is Cidr: whether the
\* value is an address of the network.
cidr_match(ip_result, event_value) ==
    IF ~ip_result.ok THEN FALSE
    ELSE LET event_ip == IpAddr_from_str(IF event_value.is_some THEN event_value.v
                                         ELSE <<>>)
         IN IF event_ip.ok THEN IpCidr_contains(ip_result.val, event_ip.val)
            ELSE FALSE

\* is_match without the test for a matcher that has neither a regex nor a
\* fast match.
DefaultMatcher_is_match_unchecked(self, event_value) ==
    IF self.pipes # <<>> /\ self.pipes[1].type = "Cidr"
    THEN Returns(cidr_match(self.pipes[1].ip_result, event_value))
    ELSE IF ~event_value.is_some THEN Returns(FALSE)
    ELSE IF self.key_list = <<>>
    THEN IF self.re.is_some THEN Returns(is_regex_match(self, event_value.v))
         ELSE Panics
    ELSE IF /\ self.fast_match.is_some
            /\ fast_match_result(self.fast_match.v, event_value.v).is_some
    THEN Returns(fast_match_result(self.fast_match.v, event_value.v).v)
    ELSE IF self.re.is_some THEN Returns(is_regex_fullmatch(self, event_value.v))
    ELSE Panics

\* DefaultMatcher::is_match; event_value is the Option of the field's
\* value. `self.re.as_ref().unwrap()` panics when there is no regex.
DefaultMatcher_is_match(self, event_value) ==
    IF self.pipes # <<>> /\ self.pipes[1].type = "Cidr"
    THEN Returns(cidr_match(self.pipes[1].ip_result, event_value))
    ELSE IF ~self.re.is_some /\ ~self.fast_match.is_some THEN Returns(FALSE)
    ELSE IF ~event_value.is_some THEN Returns(FALSE)
    ELSE IF self.key_list = <<>>
    THEN IF self.re.is_some THEN Returns(is_regex_match(self, event_value.v))
         ELSE Panics
    ELSE IF /\ self.fast_match.is_some
            /\ fast_match_result(self.fast_match.v, event_value.v).is_some
    THEN Returns(fast_match_result(self.fast_match.v, event_value.v).v)
    ELSE IF self.re.is_some THEN Returns(is_regex_fullmatch(self, event_value.v))
    ELSE Panics

\* ------------------------------------------------------------------------
\* rule/rulenode.rs: DetectionNode
\* ------------------------------------------------------------------------

\* DetectionNode::new. name_to_selection is a function from the names to
\* the nodes.
DetectionNode_new == [name_to_selection |-> <<>>, condition |-> None]

key_condition == <<"c", "o", "n", "d", "i", "t", "i", "o", "n">>

key_timeframe == <<"t", "i", "m", "e", "f", "r", "a", "m", "e">>

key_detection == <<"d", "e", "t", "e", "c", "t", "i", "o", "n">>

\* HashMap::insert
Insert(map, name, node) ==
    [n \in (DOMAIN map) \cup {name} |-> IF n = name THEN node ELSE map[n]]

\* The loop of parse_name_to_selection over the keys of the detection hash:
\* the table and the error strings collected so far; panicked when building
\* a selection panicked.
RECURSIVE parse_name_to_selection_loop(_, _, _, _)
parse_name_to_selection_loop(entries, i, name_to_selection, err_msgs) ==
    IF i > Len(entries)
    THEN [panicked |-> FALSE, name_to_selection |-> name_to_selection,
          err_msgs |-> err_msgs]
    ELSE LET key == entries[i].key
             name == IF as_str(key).is_some THEN as_str(key).v ELSE <<>>
         IN IF name = <<>> \/ name = key_condition \/ name = key_timeframe
            THEN parse_name_to_selection_loop(entries, i + 1, name_to_selection, err_msgs)
            ELSE LET selection_node == parse_selection(entries[i].value).v
                     init_result == SelectionNode_init(selection_node)
                 IN IF has_panicked(selection_node)
                    THEN [panicked |-> TRUE, name_to_selection |-> name_to_selection,
                          err_msgs |-> err_msgs]
                    ELSE IF init_result # <<>>
                    THEN parse_name_to_selection_loop(entries, i + 1,
                             name_to_selection, err_msgs \o init_result)
                    ELSE parse_name_to_selection_loop(entries, i + 1,
                             Insert(name_to_selection, name, selection_node), err_msgs)

\* parse_name_to_selection without the test that the table is not empty.
parse_name_to_selection_unchecked(self, detection_yaml) ==
    IF detection_yaml.tag # "Hash"
    THEN [panicked |-> FALSE, self |-> self,
          errs |-> <<Msg("Detection node was not found.")>>]
    ELSE LET r == parse_name_to_selection_loop(detection_yaml.items, 1,
                      self.name_to_selection, <<>>)
             after == [self EXCEPT !.name_to_selection = r.name_to_selection]
         IN IF r.panicked THEN [panicked |-> TRUE, self |-> after, errs |-> <<>>]
            ELSE [panicked |-> FALSE, self |-> after, errs |-> r.err_msgs]

\* parse_name_to_selection: the node after the call and what the call
\* returned, errs = <<>> for Ok(()).
parse_name_to_selection(self, detection_yaml) ==
    IF detection_yaml.tag # "Hash"
    THEN [panicked |-> FALSE, self |-> self,
          errs |-> <<Msg("Detection node was not found.")>>]
    ELSE LET r == parse_name_to_selection_loop(detection_yaml.items, 1,
                      self.name_to_selection, <<>>)
             after == [self EXCEPT !.name_to_selection = r.name_to_selection]
         IN IF r.panicked THEN [panicked |-> TRUE, self |-> after, errs |-> <<>>]
            ELSE IF r.err_msgs # <<>>
            THEN [panicked |-> FALSE, self |-> after, errs |-> r.err_msgs]
            ELSE IF DOMAIN r.name_to_selection = {}
            THEN [panicked |-> FALSE, self |-> after,
                  errs |-> <<Msg("There is no selection node under detection.")>>]
            ELSE [panicked |-> FALSE, self |-> after, errs |-> <<>>]

\* HashMap::keys of the table under a hash order: the names of the table
\* in the order hash_order lists them.
RECURSIVE keys(_, _)
keys(name_to_selection, hash_order) ==
    IF hash_order = <<>> THEN <<>>
    ELSE IF Head(hash_order) \in DOMAIN name_to_selection
    THEN <<Head(hash_order)>> \o keys(name_to_selection, Tail(hash_order))
    ELSE keys(name_to_selection, Tail(hash_order))

\* DetectionNode_set_condition with the error of the compilation dropped.
DetectionNode_set_condition_dropped(self, compile_result) ==
    IF ~compile_result.ok
    THEN [panicked |-> FALSE, self |-> self, errs |-> <<>>]
    ELSE [panicked |-> FALSE,
          self |-> [self EXCEPT !.condition = Some(compile_result.val)],
          errs |-> <<>>]

\* The end of DetectionNode::init: the compiled condition is stored, or its
\* error is returned and the condition stays None.
DetectionNode_set_condition(self, compile_result) ==
    IF ~compile_result.ok
    THEN [panicked |-> FALSE, self |-> self, errs |-> <<compile_result.err>>]
    ELSE [panicked |-> FALSE,
          self |-> [self EXCEPT !.condition = Some(compile_result.val)],
          errs |-> <<>>]

\* DetectionNode_init_condition with the test `keys.len() >= 3`.
DetectionNode_init_condition_three(p, condition, hash_order) ==
    IF p.panicked \/ p.errs # <<>> THEN p
    ELSE LET node_keys == keys(p.self.name_to_selection, hash_order)
         IN IF ~condition.is_some /\ Len(node_keys) >= 3
            THEN [panicked |-> FALSE, self |-> p.self,
                  errs |-> <<Msg("There is no condition node under detection.")>>]
            ELSE IF ~condition.is_some /\ node_keys = <<>>
            THEN [panicked |-> TRUE, self |-> p.self, errs |-> <<>>]
            ELSE DetectionNode_set_condition(
                     p.self,
                     compile_condition(IF condition.is_some THEN condition.v
                                       ELSE node_keys[1],
                                       p.self.name_to_selection, node_keys))

\* DetectionNode::init after parse_name_to_selection returned p: the `?`,
\* the condition string (`keys.next().unwrap()` panics on an empty table),
\* the compilation. The result is the node after the call and what the
\* call returned.
DetectionNode_init_condition(p, condition, hash_order) ==
    IF p.panicked \/ p.errs # <<>> THEN p
    ELSE LET node_keys == keys(p.self.name_to_selection, hash_order)
         IN IF ~condition.is_some /\ Len(node_keys) >= 2
            THEN [panicked |-> FALSE, self |-> p.self,
                  errs |-> <<Msg("There is no condition node under detection.")>>]
            ELSE IF ~condition.is_some /\ node_keys = <<>>
            THEN [panicked |-> TRUE, self |-> p.self, errs |-> <<>>]
            ELSE DetectionNode_set_condition(
                     p.self,
                     compile_condition(IF condition.is_some THEN condition.v
                                       ELSE node_keys[1],
                                       p.self.name_to_selection, node_keys))

DetectionNode_init(self, detection_yaml, hash_order) ==
    DetectionNode_init_condition(parse_name_to_selection(self, detection_yaml),
                                 as_str(YamlIndex(detection_yaml, key_condition)),
                                 hash_order)

\* DetectionNode_select answering true for a node without a condition.
DetectionNode_select_true(self, event_record) ==
    IF ~self.condition.is_some THEN TRUE
    ELSE select(self.condition.v, event_record)

\* DetectionNode::select
DetectionNode_select(self, event_record) ==
    IF ~self.condition.is_some THEN FALSE
    ELSE select(self.condition.v, event_record)

\* ------------------------------------------------------------------------
\* rule/rulenode.rs: RuleNode
\* ------------------------------------------------------------------------

RuleNode_new(rule_path, yaml_data) ==
    [rulepath |-> rule_path, yaml |-> yaml_data, detection |-> DetectionNode_new]

\* RuleNode::init: the rule after the call and what the call returned.
RuleNode_init_result(self, r) ==
    [panicked |-> r.panicked,
     self |-> [self EXCEPT !.detection = r.self],
     errs |-> r.errs]

RuleNode_init(self, hash_order) ==
    RuleNode_init_result(self,
                         DetectionNode_init(self.detection,
                                            YamlIndex(self.yaml, key_detection),
                                            hash_order))

RuleNode_select(self, event_record) ==
    DetectionNode_select(self.detection, event_record)

\* ------------------------------------------------------------------------
\* detection.rs
\* ------------------------------------------------------------------------

DetectInfo(rule, logdata) == [rulepath |-> rule.rulepath, logdata |-> logdata]

detect(results, rulenode) == <<>>

\* ------------------------------------------------------------------------
\* The inputs: rule files and log records
\* ------------------------------------------------------------------------

\* The most rule files read_yaml_files returns.
MaxRules == 2

\* The most records handed to detect.
MaxRecords == 1

\* The most words of a generated condition string.
MaxTokens == 3

SeqsUpTo(S, n) == UNION {[1..k -> S] : k \in 0..n}

\* The permutations of a finite set, as sequences.
Perms(S) ==
    {p \in [1..Cardinality(S) -> S] : \A x \in S : \E i \in DOMAIN p : p[i] = x}

str_a == <<"a">>

str_b == <<"b">>

str_c == <<"c">>

str_not == <<"n", "o", "t">>

str_and == <<"a", "n", "d">>

str_or == <<"o", "r">>

str_lp == <<"(">>

str_rp == <<")">>

str_a_b == <<"a", "-", "b">>

str_s1 == <<"s", "1">>

str_s2 == <<"s", "2">>

str_t1 == <<"t", "1">>

str_s_ == <<"s", "-">>

field_pid == <<"p", "i", "d">>

field_euid == <<"e", "u", "i", "d">>

\* A selection whose tree is true of every record as the code evaluates it
\* (an And over one leaf), and one whose tree is false (an And over an Or
\* over nothing).
SelPid0 == YamlHash(<<Entry(YamlString(field_pid), YamlString(<<"0">>))>>)

SelEuidNone == YamlHash(<<Entry(YamlString(field_euid), YamlArray(<<>>))>>)

SelectionYamls == {SelPid0, SelEuidNone}

\* A selection on the effective user id, and one with a mapping key that is
\* no string.
SelEuid0 == YamlHash(<<Entry(YamlString(field_euid), YamlString(<<"0">>))>>)

SelIntegerKey == YamlHash(<<Entry(YamlInteger(<<"1">>), YamlString(<<"0">>))>>)

\* The words written as a condition string: one space between two words,
\* none after `(` and none before `)`.
RECURSIVE Render(_)
Render(words) ==
    IF words = <<>> THEN <<>>
    ELSE IF Len(words) = 1 THEN words[1]
    ELSE IF words[1] = str_lp \/ words[2] = str_rp
    THEN words[1] \o Render(Tail(words))
    ELSE words[1] \o <<" ">> \o Render(Tail(words))

\* The words a generated condition is made of: the defined names a and b,
\* the undefined name c, the operators and the parentheses.
Lexemes == {str_a, str_b, str_c, str_not, str_and, str_or, str_lp, str_rp}

GeneratedConditions == {Render(w) : w \in SeqsUpTo(Lexemes, MaxTokens) \ {<<>>}}

\* Longer conditions: precedence, nesting, and the grammar errors.
LongConditions ==
    {Render(w) : w \in
        {<<str_a, str_or, str_a, str_and, str_b>>,
         <<str_a, str_and, str_b, str_or, str_a>>,
         <<str_b, str_and, str_a, str_or, str_a>>,
         <<str_a, str_or, str_b, str_or, str_a>>,
         <<str_a, str_and, str_b, str_and, str_a>>,
         <<str_not, str_a, str_and, str_b>>,
         <<str_not, str_a, str_or, str_a>>,
         <<str_a, str_and, str_not, str_b>>,
         <<str_a, str_and, str_not, str_b, str_or, str_not, str_a, str_and, str_b>>,
         <<str_lp, str_a, str_or, str_b, str_rp, str_and, str_not, str_a>>,
         <<str_lp, str_a, str_or, str_b, str_rp, str_and, str_not, str_c>>,
         <<str_not, str_lp, str_a, str_or, str_b, str_rp>>,
         <<str_not, str_lp, str_a, str_and, str_b, str_rp, str_or, str_b>>,
         <<str_a, str_and, str_lp, str_b, str_or, str_a, str_rp>>,
         <<str_lp, str_lp, str_a, str_rp, str_rp>>,
         <<str_lp, str_a, str_or, str_lp, str_b, str_and, str_not, str_a, str_rp, str_rp>>,
         <<str_lp, str_a, str_rp, str_and, str_lp, str_b, str_rp>>,
         <<str_a, str_and, str_or, str_b>>,
         <<str_lp, str_a, str_or, str_b>>,
         <<str_a, str_or, str_b, str_rp>>,
         <<str_a, str_not, str_b>>,
         <<str_a, str_and, str_not>>,
         <<str_lp, str_rp, str_and, str_a>>,
         <<str_a, str_or, str_c, str_and>>,
         <<str_c, str_or, str_lp, str_a>>,
         <<str_a, str_and, str_lp, str_b, str_or, str_c, str_rp>>,
         <<str_lp, str_a, str_rp, str_rp>>,
         <<str_lp, str_lp, str_a, str_rp>>,
         <<str_lp, str_a, str_rp, str_lp>>,
         <<str_rp, str_a, str_or, str_lp, str_b>>,
         <<str_lp, str_lp, str_a, str_rp, str_and, str_b, str_rp, str_or, str_lp, str_b, str_rp>>,
         <<str_lp, str_lp, str_lp, str_a, str_rp, str_rp, str_rp>>,
         <<str_lp, str_and, str_a, str_rp, str_and, str_b>>,
         <<str_b, str_and, str_lp, str_a, str_or, str_rp>>,
         <<str_lp, str_and, str_a, str_rp, str_b>>,
         <<str_lp, str_a, str_rp, str_or, str_lp, str_or, str_b, str_rp>>,
         <<str_a, str_or, str_b, str_and>>,
         <<str_or, str_a, str_b>>,
         <<str_a, str_and, str_lp, str_b, str_or, str_lp, str_a, str_and, str_rp, str_rp>>,
         <<str_lp, str_a, str_and, str_or, str_b, str_rp>>,
         <<str_a, str_and, str_lp, str_and, str_or, str_b, str_rp>>,
         <<str_a, str_or, str_and, str_b, str_rp>>,
         <<str_a, str_and, str_or, str_b, str_c>>,
         <<str_lp, str_a, str_and, str_or, str_b, str_rp, str_c>>,
         <<str_a, str_or, str_lp, str_b, str_and, str_and, str_a, str_rp>>}}
    \cup {<<"é">>, <<"a", " ", "o", "r", " ", "é">>, str_a_b, <<"a", ".", "b">>,
          <<"N", "o", "t", " ", "a">>, <<"a", " ", "A", "N", "D", " ", "b">>,
          <<"a", "\t", "b">>, <<"a", "_", "1">>, <<"a", " ", " ", "b">>,
          <<"(", "a", ")", "o", "r", "b">>, <<"n", "o", "t", "a">>,
          <<"a", "n", "d", "(", "a", ")">>, <<" ", "a", " ">>,
          <<"n", "o", "t", "(", "a", ")", "o", "r", " ", "b">>}

\* Conditions of the rule set flow: the grammar scenarios and the error
\* scenarios.
ScenarioConditions ==
    {Render(w) : w \in
        {<<str_a>>,
         <<str_a, str_and, str_not, str_b>>,
         <<str_lp, str_a, str_or, str_b, str_rp, str_and, str_not, str_a>>,
         <<str_a, str_and>>,
         <<str_not, str_not, str_a>>,
         <<str_lp, str_a>>,
         <<str_a, str_or, str_c>>,
         <<str_c, str_and>>}}

\* The condition `all of P*` and the condition `1 of P*`.
AllOfCondition(prefix) == AllOf \o prefix \o <<"*">>

OneOfCondition(prefix) == OneOf \o prefix \o <<"*">>

OfPrefixes == {<<"s">>, str_s1, <<"t">>, <<"q">>}

\* Conditions with `all of` and `1 of`, alone and inside an expression.
OfConditions ==
    {AllOfCondition(q) : q \in OfPrefixes} \cup {OneOfCondition(q) : q \in OfPrefixes}
    \cup {str_not \o <<" ">> \o OneOfCondition(<<"s">>),
          AllOfCondition(<<"s">>) \o <<" ">> \o str_and \o <<" ">> \o str_t1,
          OneOfCondition(<<"s">>) \o <<" ">> \o str_or \o <<" ">> \o AllOfCondition(<<"t">>),
          str_s1 \o <<" ">> \o str_or \o <<" ">> \o AllOfCondition(<<"q">>),
          str_not \o <<" ">> \o OneOfCondition(<<"q">>),
          str_s1 \o <<" ", "|", " ">> \o OneOfCondition(<<"q">>)}

\* What follows the expression of a condition from its first `|`: on one
\* line, and with a line break in it.
PipeSuffixes ==
    {<<"|">>,
     <<" ", "|", " ">> \o str_b,
     <<" ", "|", ")">>,
     <<" ", "|", " ">> \o AllOfCondition(str_a),
     <<" ", "|", " ">> \o str_a \o <<"\n">>,
     <<"|", " ">> \o str_a \o <<"\n">> \o str_or \o <<" ">> \o str_b}

\* Conditions with a pipe: an expression, or none, and a suffix.
PipeConditions ==
    {Render(w) \o x :
        w \in {<<>>, <<str_a>>, <<str_a, str_and, str_not, str_b>>,
               <<str_lp, str_a, str_or, str_b>>, <<str_b, str_or>>, <<str_c>>,
               <<str_lp, str_a, str_or, str_b, str_rp, str_and, str_not, str_a>>},
        x \in PipeSuffixes}

\* A detection block: the named selections given (name, value) in document
\* order, then the other entries, then `condition` when there is one.
DetectionYaml(selections, others, condition) ==
    YamlHash([i \in 1..Len(selections) |->
                 Entry(YamlString(selections[i][1]), selections[i][2])]
             \o others
             \o (IF condition.is_some
                 THEN <<Entry(YamlString(key_condition), condition.v)>>
                 ELSE <<>>))

RuleYaml(detection) == YamlHash(<<Entry(YamlString(key_detection), detection)>>)

\* The selections of a detection block over the given names: each name at
\* most once, each with one of SelectionYamls, in every document order.
SelectionTables(names) ==
    {t \in SeqsUpTo(names \X SelectionYamls, Cardinality(names)) :
        \A i, j \in DOMAIN t : i < j => t[i][1] # t[j][1]}

\* The same, the names in the order given.
OrderedTables(names) ==
    {t \in SelectionTables({names[i] : i \in DOMAIN names}) :
        \A i, j \in DOMAIN t : i < j =>
            \E k, l \in DOMAIN names : k < l /\ names[k] = t[i][1] /\ names[l] = t[j][1]}

StringCondition(c) == Some(YamlString(c))

\* The rule files of the rule set flow.
RuleYamls ==
    {RuleYaml(DetectionYaml(x[1], <<>>, x[2])) : x \in
        {<<<<<<str_a, SelPid0>>>>, StringCondition(Render(<<str_a>>))>>,
         <<<<<<str_a, SelPid0>>, <<str_b, SelEuidNone>>>>,
           StringCondition(Render(<<str_a, str_and, str_not, str_b>>))>>,
         <<<<<<str_a, SelEuid0>>>>, None>>,
         <<<<<<str_a, SelEuidNone>>>>, None>>,
         <<<<<<str_a, SelPid0>>>>, StringCondition(Render(<<str_a, str_and>>))>>,
         <<<<<<str_a, SelPid0>>>>, StringCondition(Render(<<str_not, str_not, str_a>>))>>,
         <<<<<<str_a, SelPid0>>>>, StringCondition(Render(<<str_lp, str_a>>))>>,
         <<<<<<str_a, SelPid0>>>>, StringCondition(Render(<<str_a, str_or, str_c>>))>>,
         <<<<<<str_a, SelPid0>>, <<str_b, SelPid0>>>>, None>>,
         <<<<>>, StringCondition(Render(<<str_a>>))>>}}

\* The detection blocks of a single rule file: the selections, a
\* `timeframe` entry or none, an entry whose key is an integer or none, and
\* the condition: none, a string, or a value that is no string.
DetectionBlocks ==
    {DetectionYaml(t, tf \o ik, c) :
        t \in SelectionTables({str_a, str_b})
              \cup {<<<<str_a_b, SelPid0>>>>, <<<<str_not, SelPid0>>>>,
                    <<<<str_a, SelIntegerKey>>>>,
                    <<<<str_a, SelPid0>>, <<str_b, SelIntegerKey>>>>},
        tf \in {<<>>, <<Entry(YamlString(key_timeframe), YamlString(<<"1", "m">>))>>},
        ik \in {<<>>, <<Entry(YamlInteger(<<"1">>), SelPid0)>>},
        c \in {None, Some(YamlInteger(<<"1">>))}
              \cup {StringCondition(x) : x \in ScenarioConditions}}

\* A rule file with a detection block, with a `detection` that is no
\* mapping, and with none.
SingleRuleYamls ==
    {RuleYaml(d) : d \in DetectionBlocks \cup {YamlString(str_a)}}
    \cup {YamlHash(<<>>)}

\* A LogData: the fields a selection can name.
Record(pid, euid) == (field_pid :> pid) @@ (field_euid :> euid)

Records == {Record(<<"0">>, <<"0">>), Record(<<"0">>, <<"5", "0", "1">>)}

Digits == <<"1", "2", "3", "4", "5", "6", "7", "8", "9">>

\* The path read_yaml_files gives the i-th file.
RulePath(i) == <<"r", Digits[i]>>

YamlFiles(yamls) == [i \in 1..Len(yamls) |-> [path |-> RulePath(i), yaml |-> yamls[i]]]

\* The names a detection block gives its selections: the keys that
\* parse_name_to_selection does not skip.
SelectionNames(rule_yaml) ==
    LET d == YamlIndex(rule_yaml, key_detection)
    IN IF d.tag # "Hash" THEN {}
       ELSE {d.items[i].key.str : i \in {k \in 1..Len(d.items) :
                /\ d.items[k].key.tag = "String"
                /\ d.items[k].key.str \notin {<<>>, key_condition, key_timeframe}}}

\* ------------------------------------------------------------------------
\* The program: main loads the rules; select and detect use them
\* ------------------------------------------------------------------------

VARIABLES
    yaml_files,     \* what read_yaml_files returned: (path, yaml) per file
    logdata,        \* the records parsed from the log archive
    rule_nodes,     \* main's rule_nodes so far
    init_results,   \* what RuleNode::init returned for each of them
    pc,             \* "load", "loaded", "done" or "panicked"
    selected,       \* the last call of RuleNode::select and its result
    detections,     \* what detect returned
    matcher,        \* a DefaultMatcher, its key list and value, what init returned
    is_match_call,  \* the last call of DefaultMatcher::is_match and its result
    compile_run     \* a call of compile_condition: where it is and what it holds

vars == <<yaml_files, logdata, rule_nodes, init_results, pc, selected, detections,
          matcher, is_match_call, compile_run>>

NoCall == [rule |-> 0, record |-> 0, matched |-> FALSE]

\* A matcher after DefaultMatcher::new, before init.
NewMatcher(key_list, select_value) ==
    [inited |-> FALSE, key_list |-> key_list, select_value |-> select_value,
     result |-> MatcherOk(DefaultMatcher_new)]

NoMatchCall == [called |-> FALSE, event_value |-> None, result |-> Returns(FALSE)]

\* No call of compile_condition is under way.
NoCompile ==
    [pc |-> "idle", condition_str |-> <<>>, cur_condition_str |-> <<>>,
     tokens |-> <<>>, groups |-> <<>>, result |-> Ok(<<>>)]

InitWith(yamls, records) ==
    /\ yaml_files = YamlFiles(yamls)
    /\ logdata = records
    /\ rule_nodes = <<>>
    /\ init_results = <<>>
    /\ pc = "load"
    /\ selected = NoCall
    /\ detections = <<>>
    /\ matcher = NewMatcher(<<>>, YamlNull)
    /\ is_match_call = NoMatchCall
    /\ compile_run = NoCompile

Init ==
    \E yamls \in SeqsUpTo(RuleYamls, MaxRules), records \in SeqsUpTo(Records, MaxRecords) :
        InitWith(yamls, records)

\* main.rs: one step of the map over the rule files: RuleNode::new, then
\* init, whose result is dropped.
LoadRule ==
    /\ pc = "load"
    /\ Len(rule_nodes) < Len(yaml_files)
    /\ LET file == yaml_files[Len(rule_nodes) + 1]
           rule == RuleNode_new(file.path, file.yaml)
       IN \E hash_order \in Perms(SelectionNames(file.yaml)) :
              \E r \in {RuleNode_init(rule, hash_order)} :
                 /\ rule_nodes' = Append(rule_nodes, r.self)
                 /\ init_results' = Append(init_results, r.errs)
                 /\ pc' = IF r.panicked THEN "panicked" ELSE "load"
    /\ UNCHANGED <<yaml_files, logdata, selected, detections, matcher, is_match_call, compile_run>>

\* main.rs: the rule set is collected.
Loaded ==
    /\ pc = "load"
    /\ Len(rule_nodes) = Len(yaml_files)
    /\ pc' = "loaded"
    /\ UNCHANGED <<yaml_files, logdata, rule_nodes, init_results, selected, detections,
                   matcher, is_match_call, compile_run>>

\* RuleNode::select of a loaded rule on a record.
Select ==
    /\ pc = "loaded"
    /\ \E i \in 1..Len(rule_nodes), k \in 1..Len(logdata) :
           selected' = [rule |-> i, record |-> k,
                        matched |-> RuleNode_select(rule_nodes[i], logdata[k])]
    /\ UNCHANGED <<yaml_files, logdata, rule_nodes, init_results, pc, detections,
                   matcher, is_match_call, compile_run>>

\* detect of the records against the rule set.
Detect ==
    /\ pc = "loaded"
    /\ detections' = detect(logdata, rule_nodes)
    /\ pc' = "done"
    /\ UNCHANGED <<yaml_files, logdata, rule_nodes, init_results, selected,
                   matcher, is_match_call, compile_run>>

Next == LoadRule \/ Loaded \/ Select \/ Detect

Spec == Init /\ [][Next]_vars

\* One rule file from SingleRuleYamls, and a record list.
InitRule ==
    \E y \in SingleRuleYamls, records \in SeqsUpTo(Records, MaxRecords) \ {<<>>} :
        InitWith(<<y>>, records)

SpecRule == InitRule /\ [][Next]_vars

\* One rule file whose detection block defines a and b and has a generated
\* or a longer condition, or a condition with a pipe; or defines some of s1,
\* s2, t1 and s- and has a condition with `all of` or `1 of`.
InitCond ==
    \/ \E t \in OrderedTables(<<str_a, str_b>>),
          c \in GeneratedConditions \cup LongConditions :
           /\ Len(t) = 2
           /\ InitWith(<<RuleYaml(DetectionYaml(t, <<>>, StringCondition(c)))>>,
                       <<Record(<<"0">>, <<"0">>)>>)
    \/ \E t \in OrderedTables(<<str_a, str_b>>), c \in PipeConditions :
           /\ Len(t) = 2
           /\ InitWith(<<RuleYaml(DetectionYaml(t, <<>>, StringCondition(c)))>>,
                       <<Record(<<"0">>, <<"0">>)>>)
    \/ \E t \in OrderedTables(<<str_s1, str_s2, str_t1, str_s_>>), c \in OfConditions :
           /\ Len(t) <= 3
           /\ InitWith(<<RuleYaml(DetectionYaml(t, <<>>, StringCondition(c)))>>,
                       <<Record(<<"0">>, <<"0">>)>>)

SpecCond == InitCond /\ [][Next]_vars

\* ------------------------------------------------------------------------
\* One matcher: DefaultMatcher::init, then DefaultMatcher::is_match
\* ------------------------------------------------------------------------

field_f == <<"f">>

\* The field name followed by pipe names.
PipedKey(pipe_names) ==
    IF pipe_names = <<>> THEN field_f
    ELSE field_f \o <<"|">> \o Join(pipe_names, <<"|">>)

\* The key lists of the matchers: no key (a grep of the whole record), a
\* field alone, and a field with one, two, three and four pipes.
KeyLists ==
    {<<>>, <<<<"|">> \o pipe_all>>}
    \cup {<<PipedKey(p)>> : p \in
            {<<>>, <<pipe_cidr>>, <<pipe_contains>>, <<pipe_startswith>>,
             <<pipe_endswith>>, <<pipe_re>>, <<pipe_base64offset>>, <<<<"x">>>>,
             <<pipe_base64offset, pipe_contains>>, <<pipe_contains, pipe_all>>,
             <<pipe_cidr, pipe_contains>>, <<pipe_contains, pipe_cidr>>,
             <<pipe_cidr, pipe_re>>,
             <<pipe_cidr, <<"x">>>>, <<pipe_contains, pipe_all, pipe_re>>,
             <<pipe_contains, pipe_all, pipe_re, <<"x">>>>}}

str_network == <<"1", "0", ".", "0", ".", "0", ".", "0", "/", "8">>

str_network33 == <<"1", "0", ".", "0", ".", "0", ".", "0", "/", "3", "3">>

str_network31 == <<"1", "0", ".", "1", ".", "2", ".", "0", "/", "3", "1">>

str_SSH == <<"S", "S", "H">>

str_cmd_exe == <<"c", "m", "d", ".", "e", "x", "e">>

str_Vm == <<"V", "m">>

str_ip_in == <<"1", "0", ".", "1", ".", "2", ".", "3">>

str_ip_out == <<"1", "1", ".", "1", ".", "2", ".", "3">>

str_not_an_ip == <<"n", "o", "t", " ", "a", "n", " ", "i", "p">>

str_usr_bin_ssh == <<"/", "u", "s", "r", "/", "b", "i", "n", "/", "s", "s", "h">>

str_bin_bash == <<"/", "b", "i", "n", "/", "b", "a", "s", "h">>

\* base64 of `cmd.exe`, without its padding, and the same in lower case.
str_Y21kLmV4ZQ == <<"Y", "2", "1", "k", "L", "m", "V", "4", "Z", "Q">>

str_ssh == <<"s", "s", "h">>

\* a\b, with one backslash
str_a_bs_b == <<"a", "\\", "b">>

\* a\\b, with two backslashes
str_a_bs_bs_b == <<"a", "\\", "\\", "b">>

\* The values of the selections: null, networks, words, an empty string,
\* a regex that does not compile and two that do, and words with
\* backslashes.
SelectValues ==
    {YamlNull, YamlInteger(<<"1", "0">>)}
    \cup {YamlString(x) : x \in
            {str_network, str_network33, str_network31, str_ip_in, str_SSH, str_cmd_exe, str_a,
             str_Vm, <<>>, str_lp, <<"s", ".", "h">>, <<"a", "*">>,
             str_ssh, str_a_bs_b, str_a_bs_bs_b}}

\* The values of the field in a record, and its absence.
EventValues ==
    {None}
    \cup {Some(x) : x \in
            {str_ip_in, str_ip_out, str_not_an_ip, str_usr_bin_ssh, str_bin_bash,
             str_SSH, str_a, str_Vm, str_cmd_exe, str_Y21kLmV4ZQ,
             to_lowercase(str_Y21kLmV4ZQ), <<>>, str_network, <<"1", "0">>,
             str_a_bs_b, to_uppercase(str_a_bs_b), str_a_bs_bs_b,
             <<"é", "/", "s", "s", "h">>, <<"S", "S", "H", "é">>,
             <<long_s, long_s, "h">>, <<"é">>,
             str_a_bs_b \o <<"é">>, <<"é">> \o str_a_bs_b}}

InitMatcher ==
    \E key_list \in KeyLists, select_value \in SelectValues :
        /\ yaml_files = <<>>
        /\ logdata = <<>>
        /\ rule_nodes = <<>>
        /\ init_results = <<>>
        /\ pc = "done"
        /\ selected = NoCall
        /\ detections = <<>>
        /\ matcher = NewMatcher(key_list, select_value)
        /\ is_match_call = NoMatchCall
        /\ compile_run = NoCompile

\* DefaultMatcher::init of the new matcher.
MatcherInit ==
    /\ ~matcher.inited
    /\ matcher' = [matcher EXCEPT
                       !.inited = TRUE,
                       !.result = DefaultMatcher_init(DefaultMatcher_new, matcher.key_list,
                                                      matcher.select_value)]
    /\ UNCHANGED <<yaml_files, logdata, rule_nodes, init_results, pc, selected,
                   detections, is_match_call, compile_run>>

\* DefaultMatcher::is_match of the matcher on a value of the field. main
\* drops what init returned, so a matcher whose init failed is used too.
IsMatch ==
    /\ matcher.inited
    /\ ~matcher.result.panicked
    /\ \E event_value \in EventValues :
           is_match_call' = [called |-> TRUE, event_value |-> event_value,
                             result |-> DefaultMatcher_is_match(matcher.result.val,
                                                                event_value)]
    /\ UNCHANGED <<yaml_files, logdata, rule_nodes, init_results, pc, selected,
                   detections, matcher, compile_run>>

NextMatcher == MatcherInit \/ IsMatch

SpecMatcher == InitMatcher /\ [][NextMatcher]_vars

\* ------------------------------------------------------------------------
\* detect and the leaves
\* ------------------------------------------------------------------------

\* The (rule, record) pairs of the loaded rule set and the records for which
\* the rule evaluates to true.
MatchingPairs ==
    {x \in (DOMAIN rule_nodes) \X (DOMAIN logdata) :
        RuleNode_select(rule_nodes[x[1]], logdata[x[2]])}

\* C1: when detect has returned, its result holds one detection for every
\* (record, rule) pair for which the rule is true of the record, with the
\* path of the rule and the record, and nothing else.
C1_DetectEmitsMatches ==
    pc = "done" =>
        /\ \A d \in DOMAIN detections :
               \E x \in MatchingPairs :
                   detections[d] = DetectInfo(rule_nodes[x[1]], logdata[x[2]])
        /\ \A x \in MatchingPairs :
               Cardinality({d \in DOMAIN detections :
                               detections[d] = DetectInfo(rule_nodes[x[1]], logdata[x[2]])})
                 = Cardinality({y \in MatchingPairs :
                                   DetectInfo(rule_nodes[y[1]], logdata[y[2]])
                                     = DetectInfo(rule_nodes[x[1]], logdata[x[2]])})

\* LogData's field of a name: Some(value), None when the record has no such
\* field.
get_value(event_record, field) ==
    IF field \in DOMAIN event_record THEN Some(event_record[field]) ELSE None

\* The result of the matcher of a leaf, initialised from the key list and
\* the value of the leaf, on the field the first key names.
MatcherResult(leaf, event_record, init_result) ==
    /\ init_result.ok
    /\ DefaultMatcher_is_match(init_result.val,
                               get_value(event_record, leaf.key_list[1])).val

\* The leaf of a rule whose condition is its one selection and whose
\* selection is one field: value pair.
SoleLeaf(rule) ==
    {leaf \in {n.child_nodes[1] :
                  n \in {rule.detection.name_to_selection[k] :
                            k \in DOMAIN rule.detection.name_to_selection}} :
        /\ leaf.kind = "Leaf"
        /\ rule.detection.condition
             = Some(OrSelectionNode(<<RefSelectionNode(AndSelectionNode(<<leaf>>))>>))}

\* C2: whenever select is called on a rule made of one leaf, the result is
\* the result of the leaf's matcher on the field its first key names.
C2_LeafEvaluatesMatcher ==
    selected.rule # 0 =>
        \A leaf \in SoleLeaf(rule_nodes[selected.rule]) :
            selected.matched
              = MatcherResult(leaf, logdata[selected.record],
                              DefaultMatcher_init(DefaultMatcher_new, leaf.key_list,
                                                  leaf.select_value))

\* ------------------------------------------------------------------------
\* Reading a condition as a boolean expression
\* ------------------------------------------------------------------------

\* The condition string of the i-th rule file, <<>> when it has none.
ConditionOf(i) ==
    LET c == as_str(YamlIndex(YamlIndex(yaml_files[i].yaml, key_detection),
                              key_condition))
    IN IF c.is_some THEN c.v ELSE <<>>

\* The value of a token sequence read as a boolean expression, `not` binding
\* tighter than `and`, `and` tighter than `or`, parentheses grouping, with
\* truth[n] the value of the name n: ok, the value and the position after
\* the expression read from position i.
Unread == [ok |-> FALSE, val |-> FALSE, next |-> 0]

RECURSIVE ReadOr(_, _, _)
RECURSIVE ReadOrRest(_, _, _, _)
RECURSIVE ReadAnd(_, _, _)
RECURSIVE ReadAndRest(_, _, _, _)
RECURSIVE ReadNot(_, _, _)

ReadAtom(toks, i, truth) ==
    IF i > Len(toks) THEN Unread
    ELSE IF toks[i].type = "SelectionReference"
    THEN IF toks[i].name \in DOMAIN truth
         THEN [ok |-> TRUE, val |-> truth[toks[i].name], next |-> i + 1]
         ELSE Unread
    ELSE IF toks[i].type = "LeftParenthesis"
    THEN LET r == ReadOr(toks, i + 1, truth)
         IN IF r.ok /\ r.next <= Len(toks) /\ toks[r.next].type = "RightParenthesis"
            THEN [r EXCEPT !.next = r.next + 1]
            ELSE Unread
    ELSE Unread

ReadNot(toks, i, truth) ==
    IF i <= Len(toks) /\ toks[i].type = "Not"
    THEN LET r == ReadNot(toks, i + 1, truth)
         IN IF r.ok THEN [r EXCEPT !.val = ~r.val] ELSE Unread
    ELSE ReadAtom(toks, i, truth)

ReadAndRest(toks, i, truth, left) ==
    IF i <= Len(toks) /\ toks[i].type = "And"
    THEN LET r == ReadNot(toks, i + 1, truth)
         IN IF r.ok THEN ReadAndRest(toks, r.next, truth, left /\ r.val) ELSE Unread
    ELSE [ok |-> TRUE, val |-> left, next |-> i]

ReadAnd(toks, i, truth) ==
    LET r == ReadNot(toks, i, truth)
    IN IF r.ok THEN ReadAndRest(toks, r.next, truth, r.val) ELSE Unread

ReadOrRest(toks, i, truth, left) ==
    IF i <= Len(toks) /\ toks[i].type = "Or"
    THEN LET r == ReadAnd(toks, i + 1, truth)
         IN IF r.ok THEN ReadOrRest(toks, r.next, truth, left \/ r.val) ELSE Unread
    ELSE [ok |-> TRUE, val |-> left, next |-> i]

ReadOr(toks, i, truth) ==
    LET r == ReadAnd(toks, i, truth)
    IN IF r.ok THEN ReadOrRest(toks, r.next, truth, r.val) ELSE Unread

ReadExpression(toks, truth) ==
    LET r == ReadOr(toks, 1, truth)
    IN IF r.ok /\ r.next = Len(toks) + 1 THEN r ELSE Unread

\* The value each named selection of a rule has on a record.
TruthOf(rule, event_record) ==
    [n \in DOMAIN rule.detection.name_to_selection |->
        select(rule.detection.name_to_selection[n], event_record)]

\* The condition is made of names, not, and, or, parentheses and spaces.
IsPlainCondition(condition_str) ==
    /\ condition_str # <<>>
    /\ \A k \in 1..Len(condition_str) :
           condition_str[k] \in WordChars \cup {"(", ")", " "}

\* RuleNode::init returned Ok(()) for the i-th rule.
Compiled(i) == i <= Len(init_results) /\ init_results[i] = <<>>

\* C3: every plain condition that compile_condition accepts evaluates, for
\* the truth values the named selections have, to the value of the boolean
\* expression read with `not` binding tighter than `and`, `and` tighter than
\* `or`, and parentheses grouping.
C3_ConditionPrecedence ==
    selected.rule # 0 =>
        LET i == selected.rule
            toks == tokenize(ConditionOf(i))
            truth == TruthOf(rule_nodes[i], logdata[selected.record])
        IN (Compiled(i) /\ IsPlainCondition(ConditionOf(i))) =>
               /\ toks.ok
               /\ ReadExpression(toks.val, truth).ok
               /\ selected.matched = ReadExpression(toks.val, truth).val

\* A call of select on a rule compiled from `a or a and b` with a true and b
\* false: true as a or (a and b), false as (a or b) and b.
C3_Witness ==
    /\ selected.rule # 0
    /\ Compiled(selected.rule)
    /\ ConditionOf(selected.rule)
         = Render(<<str_a, str_or, str_a, str_and, str_b>>)
    /\ TruthOf(rule_nodes[selected.rule], logdata[selected.record])
         = (str_a :> TRUE) @@ (str_b :> FALSE)
    /\ selected.matched

\* ------------------------------------------------------------------------
\* `all of` and `1 of`
\* ------------------------------------------------------------------------

\* The named selections of a rule whose names begin with the prefix.
NamesWithPrefix(rule, prefix) ==
    {n \in DOMAIN rule.detection.name_to_selection : StartsWith(n, prefix)}

\* A name a condition can refer to: a bareword that is no reserved word.
IsSelectionName(n) ==
    /\ n # <<>>
    /\ \A k \in 1..Len(n) : n[k] \in WordChars
    /\ n \notin {str_not, str_and, str_or}

\* The i-th rule compiled, and a call of select on it returned what the
\* named selections beginning with the prefix give: all of them true when
\* all is TRUE, one of them true otherwise.
OfConditionHolds(i, prefix, all) ==
    /\ Compiled(i)
    /\ selected.rule = i =>
           LET truth == TruthOf(rule_nodes[i], logdata[selected.record])
               names == NamesWithPrefix(rule_nodes[i], prefix)
           IN selected.matched = IF all THEN \A n \in names : truth[n]
                                 ELSE \E n \in names : truth[n]

Returned(i) == i \in DOMAIN init_results /\ ~(pc = "panicked" /\ i = Len(init_results))

\* Every reference of the tree holds a node of the name table.
RECURSIVE RefsResolve(_, _)
RefsResolve(node, name_to_selection) ==
    IF node.kind = "Ref"
    THEN \E n \in DOMAIN name_to_selection :
             name_to_selection[n] = node.child_nodes[1]
    ELSE \A k \in 1..Len(node.child_nodes) :
             RefsResolve(node.child_nodes[k], name_to_selection)

\* C5: after RuleNode::init returned, either it returned Ok and the rule
\* holds a condition tree whose every reference is a named selection of the
\* rule, or it returned a non-empty list of errors and the rule holds no
\* condition.
C5_AllOrNothing ==
    \A i \in DOMAIN init_results :
        Returned(i) =>
            IF init_results[i] = <<>>
            THEN /\ rule_nodes[i].detection.condition.is_some
                 /\ RefsResolve(rule_nodes[i].detection.condition.v,
                                rule_nodes[i].detection.name_to_selection)
            ELSE ~rule_nodes[i].detection.condition.is_some

\* A rule whose selections were built and whose condition did not compile:
\* an error, a name table and no condition.
C5_Witness ==
    /\ pc = "loaded"
    /\ init_results[1] # <<>>
    /\ init_results[1][1].prefix = "A condition parse error has occurred. "
    /\ DOMAIN rule_nodes[1].detection.name_to_selection = {str_a, str_b}
    /\ ~rule_nodes[1].detection.condition.is_some

\* What RuleNode::init gives for the i-th rule file taken alone, under some
\* order of the name table.
LoadedAlone(i) ==
    \E hash_order \in Perms(SelectionNames(yaml_files[i].yaml)) :
        RuleNode_init(RuleNode_new(yaml_files[i].path, yaml_files[i].yaml), hash_order)
          = [panicked |-> FALSE, self |-> rule_nodes[i], errs |-> init_results[i]]

\* C6: a rule whose compilation returned errors never matches a record, and
\* every rule of the set is compiled and evaluates as it does taken alone.
C6_FailedRuleRejected ==
    /\ \A i \in DOMAIN init_results : LoadedAlone(i)
    /\ selected.rule # 0 =>
           /\ init_results[selected.rule] # <<>> => ~selected.matched
           /\ init_results[selected.rule] = <<>> =>
                  selected.matched
                    = select(rule_nodes[selected.rule].detection.condition.v,
                             logdata[selected.record])

\* Two rules: the first with condition `a and`, rejected and evaluated to
\* false on a record its selection is true of.
C6_Witness ==
    /\ Len(rule_nodes) = 2
    /\ ConditionOf(1) = Render(<<str_a, str_and>>)
    /\ init_results[1] # <<>>
    /\ init_results[2] = <<>>
    /\ selected.rule = 1
    /\ TruthOf(rule_nodes[1], logdata[selected.record])[str_a]
    /\ ~selected.matched

\* ------------------------------------------------------------------------
\* Undefined names
\* ------------------------------------------------------------------------

\* The names the condition of the i-th rule refers to that the rule does
\* not define.
UndefinedNames(i) ==
    LET toks == tokenize(ConditionOf(i))
    IN IF ~toks.ok \/ ~IsPlainCondition(ConditionOf(i)) THEN {}
       ELSE {toks.val[k].name : k \in {j \in 1..Len(toks.val) :
                /\ toks.val[j].type = "SelectionReference"
                /\ toks.val[j].name
                     \notin DOMAIN rule_nodes[i].detection.name_to_selection}}

\* The errors are the one error "<name> is not defined." for one of the
\* names.
IsNotDefinedError(errs, names) ==
    /\ Len(errs) = 1
    /\ errs[1].text = " is not defined."
    /\ errs[1].arg \in names

\* The tokens of the i-th condition parse.
Parses(i) == parse_tokenized(tokenize(ConditionOf(i))).ok

\* C7 as stated: a condition that refers to an undefined name fails with
\* "<name> is not defined.", and no compiled tree has a reference without a
\* target.
C7_UndefinedNameError ==
    \A i \in DOMAIN init_results :
        /\ UndefinedNames(i) # {} => IsNotDefinedError(init_results[i], UndefinedNames(i))
        /\ Compiled(i) =>
               RefsResolve(rule_nodes[i].detection.condition.v,
                           rule_nodes[i].detection.name_to_selection)

\* C7, amended: a condition that refers to an undefined name never
\* compiles; when its tokens parse, the error is "<name> is not defined."
\* for such a name; and no compiled tree has a reference without a target.
C7_UndefinedNameNeverCompiles ==
    \A i \in DOMAIN init_results :
        /\ UndefinedNames(i) # {} =>
               /\ ~Compiled(i)
               /\ Parses(i) => IsNotDefinedError(init_results[i], UndefinedNames(i))
        /\ Compiled(i) =>
               RefsResolve(rule_nodes[i].detection.condition.v,
                           rule_nodes[i].detection.name_to_selection)

\* A rule with condition `a or c`, c undefined, rejected with "c is not
\* defined.".
C7_Witness ==
    /\ pc = "loaded"
    /\ ConditionOf(1) = Render(<<str_a, str_or, str_c>>)
    /\ IsNotDefinedError(init_results[1], {str_c})

\* ------------------------------------------------------------------------
\* The detection block without a condition, and without a selection
\* ------------------------------------------------------------------------

\* The `detection` of the i-th rule file.
DetectionOf(i) == YamlIndex(yaml_files[i].yaml, key_detection)

\* The detection block of the i-th rule file has the key `condition`.
HasConditionKey(i) ==
    \E k \in 1..Len(DetectionOf(i).items) :
        DetectionOf(i).items[k].key = YamlString(key_condition)

\* The number of named selections of the i-th rule file.
SelectionCount(i) == Cardinality(SelectionNames(yaml_files[i].yaml))

\* Every key of every mapping of the value is a string.
RECURSIVE StringKeyed(_)
StringKeyed(yaml) ==
    \A k \in 1..Len(yaml.items) :
        IF yaml.tag = "Hash"
        THEN yaml.items[k].key.tag = "String" /\ StringKeyed(yaml.items[k].value)
        ELSE StringKeyed(yaml.items[k])

\* The values of the named selections of the i-th rule file have string
\* keys only.
SelectionsStringKeyed(i) ==
    \A k \in 1..Len(DetectionOf(i).items) :
        DetectionOf(i).items[k].key.tag = "String" =>
            StringKeyed(DetectionOf(i).items[k].value)

NoConditionError == <<Msg("There is no condition node under detection.")>>

NoSelectionError == <<Msg("There is no selection node under detection.")>>

\* C8: a rule whose detection block has no `condition` key and exactly one
\* named selection compiles, and select on it returns what the selection
\* returns.
C8_SoleSelectionAdopted ==
    \A i \in DOMAIN init_results :
        (/\ Returned(i)
         /\ DetectionOf(i).tag = "Hash"
         /\ ~HasConditionKey(i)
         /\ SelectionCount(i) = 1) =>
            /\ Compiled(i)
            /\ selected.rule = i =>
                   \A n \in DOMAIN rule_nodes[i].detection.name_to_selection :
                       selected.matched
                         = select(rule_nodes[i].detection.name_to_selection[n],
                                  logdata[selected.record])

C10_NoSelectionError ==
    \A i \in DOMAIN init_results :
        (/\ DetectionOf(i).tag = "Hash"
         /\ \A k \in 1..Len(DetectionOf(i).items) :
                DetectionOf(i).items[k].key
                  \in {YamlString(key_condition), YamlString(key_timeframe)}) =>
            Returned(i) /\ init_results[i] = NoSelectionError

\* A rule whose detection block holds the condition `a` and nothing else,
\* rejected for the missing selection.
C10_Witness ==
    /\ pc = "loaded"
    /\ Len(DetectionOf(1).items) = 1
    /\ ConditionOf(1) = Render(<<str_a>>)
    /\ init_results[1] = NoSelectionError

\* ------------------------------------------------------------------------
\* Parentheses
\* ------------------------------------------------------------------------

\* The tokens of the i-th condition.
TokensOf(i) == tokenize(ConditionOf(i)).val

\* The i-th condition is made of names, operators, parentheses and spaces.
IsPlainRule(i) == IsPlainCondition(ConditionOf(i))

\* Reading the tokens from position i with `open` parentheses open: how many
\* are still open at the end, and whether a `)` came with none open.
RECURSIVE ParenScan(_, _, _, _)
ParenScan(toks, i, open, leftover) ==
    IF i > Len(toks) THEN [open |-> open, leftover |-> leftover]
    ELSE IF toks[i].type = "LeftParenthesis"
    THEN ParenScan(toks, i + 1, open + 1, leftover)
    ELSE IF toks[i].type = "RightParenthesis"
    THEN IF open = 0 THEN ParenScan(toks, i + 1, 0, TRUE)
         ELSE ParenScan(toks, i + 1, open - 1, leftover)
    ELSE ParenScan(toks, i + 1, open, leftover)

UnmatchedLeft(toks) == ParenScan(toks, 1, 0, FALSE).open > 0

LeftoverRight(toks) == ParenScan(toks, 1, 0, FALSE).leftover

Balanced(toks) == ~UnmatchedLeft(toks) /\ ~LeftoverRight(toks)

\* The tokens a result of parse_parenthesis stands for: every group written
\* back between its parentheses.
RECURSIVE Ungroup(_)
Ungroup(ret) ==
    IF ret = <<>> THEN <<>>
    ELSE IF Head(ret).type = "ParenthesisContainer"
    THEN <<Token("LeftParenthesis")>> \o Head(ret).sub \o <<Token("RightParenthesis")>>
         \o Ungroup(Tail(ret))
    ELSE <<Head(ret)>> \o Ungroup(Tail(ret))

\* parse_parenthesis groups every `(` of the tokens with its own `)`: no
\* parenthesis is left outside a group, the groups written back give the
\* tokens, and the same holds inside every group.
RECURSIVE GroupedAsMatched(_)
GroupedAsMatched(toks) ==
    LET r == parse_parenthesis(toks)
    IN /\ r.ok
       /\ Ungroup(r.val) = toks
       /\ \A k \in 1..Len(r.val) :
              /\ r.val[k].type \notin {"LeftParenthesis", "RightParenthesis"}
              /\ r.val[k].type = "ParenthesisContainer" =>
                     /\ Balanced(r.val[k].sub)
                     /\ GroupedAsMatched(r.val[k].sub)

\* The i-th rule failed with the one condition parse error of this text.
FailsWith(i, text) ==
    init_results[i]
      = <<[prefix |-> "A condition parse error has occurred. ", arg |-> <<>>,
           text |-> text]>>

RightExpected == "')' was expected but not found."

LeftExpected == "'(' was expected but not found."

\* C11: a condition with a `(` that has no matching `)` fails with "')' was
\* expected but not found."; one whose `(` are all matched and that has a `)`
\* left over fails with "'(' was expected but not found."; a condition with
\* balanced parentheses gives neither error, and each of its `(` is grouped
\* with its own `)` at every depth.
C11_ParenthesesBalanced ==
    \A i \in DOMAIN init_results :
        IsPlainRule(i) =>
            /\ UnmatchedLeft(TokensOf(i)) => FailsWith(i, RightExpected)
            /\ (~UnmatchedLeft(TokensOf(i)) /\ LeftoverRight(TokensOf(i))) =>
                   FailsWith(i, LeftExpected)
            /\ Balanced(TokensOf(i)) =>
                   /\ ~FailsWith(i, RightExpected)
                   /\ ~FailsWith(i, LeftExpected)
                   /\ GroupedAsMatched(TokensOf(i))

\* The rule with condition `(a))`, rejected for its last `)`.
C11_Witness ==
    /\ pc = "loaded"
    /\ ConditionOf(1) = Render(<<str_lp, str_a, str_rp, str_rp>>)
    /\ LeftoverRight(TokensOf(1))
    /\ FailsWith(1, LeftExpected)

\* ------------------------------------------------------------------------
\* Logical operators in the wrong place
\* ------------------------------------------------------------------------

IsOperator(toks, p) == toks[p].type \in {"And", "Or"}

\* The token at p is `and` or `or` and is the first or the last token, of
\* the condition or of the text directly inside a parenthesis pair.
OperatorAtEdge(toks, p) ==
    /\ IsOperator(toks, p)
    /\ \/ p = 1
       \/ p = Len(toks)
       \/ toks[p - 1].type = "LeftParenthesis"
       \/ toks[p + 1].type = "RightParenthesis"

\* The tokens without the one at p.
Remove(toks, p) == SubSeq(toks, 1, p - 1) \o SubSeq(toks, p + 1, Len(toks))

IllegalOperator == "An illegal logical operator(and, or) was found."

\* C12 as stated: a condition in which `and` or `or` is the first or the
\* last token, at the top level or directly inside a parenthesis pair, fails
\* with "An illegal logical operator was found.".
C12_IllegalOperatorError ==
    \A i \in DOMAIN init_results :
        (IsPlainRule(i) /\ \E p \in 1..Len(TokensOf(i)) : OperatorAtEdge(TokensOf(i), p)) =>
            FailsWith(i, "An illegal logical operator was found.")

\* C12, amended: such a condition never compiles; it fails with "An illegal
\* logical operator(and, or) was found." when the operator is the first or
\* the last token of the condition and the parentheses are balanced, and
\* when the operator is the condition's only fault, the tokens without it
\* parsing.
C12_IllegalOperatorRejected ==
    \A i \in DOMAIN init_results :
        IsPlainRule(i) =>
            \A p \in 1..Len(TokensOf(i)) :
                OperatorAtEdge(TokensOf(i), p) =>
                    /\ ~Compiled(i)
                    /\ (p \in {1, Len(TokensOf(i))} /\ Balanced(TokensOf(i))) =>
                           FailsWith(i, IllegalOperator)
                    /\ parse(Remove(TokensOf(i), p)).ok =>
                           FailsWith(i, IllegalOperator)

\* The rule with condition `b and (a or)`, rejected for the `or` that ends
\* the group.
C12_Witness ==
    /\ pc = "loaded"
    /\ ConditionOf(1) = Render(<<str_b, str_and, str_lp, str_a, str_or, str_rp>>)
    /\ OperatorAtEdge(TokensOf(1), 5)
    /\ FailsWith(1, IllegalOperator)

\* The tokens at p and p + 1 are both `and` or `or`.
AdjacentOperators(toks, p) ==
    p < Len(toks) /\ IsOperator(toks, p) /\ IsOperator(toks, p + 1)

\* No parenthesis is open at position p.
AtTopLevel(toks, p) == ParenScan(SubSeq(toks, 1, p - 1), 1, 0, FALSE).open = 0

\* The condition neither starts nor ends with `and` or `or`.
NoOperatorAtEnds(toks) ==
    toks # <<>> /\ ~IsOperator(toks, 1) /\ ~IsOperator(toks, Len(toks))

WrongUse == "The use of a logical operator(and, or) was wrong."

\* C13 as stated: a condition with two adjacent logical operators that
\* neither starts nor ends with an operator fails with "The use of a logical
\* operator was wrong."; a condition whose operators are never adjacent does
\* not give this error.
C13_AdjacentOperatorsError ==
    \A i \in DOMAIN init_results :
        IsPlainRule(i) =>
            /\ (/\ NoOperatorAtEnds(TokensOf(i))
                /\ \E p \in 1..Len(TokensOf(i)) : AdjacentOperators(TokensOf(i), p)) =>
                   FailsWith(i, "The use of a logical operator was wrong.")
            /\ (\A p \in 1..Len(TokensOf(i)) : ~AdjacentOperators(TokensOf(i), p)) =>
                   ~FailsWith(i, "The use of a logical operator was wrong.")

\* C13, amended: such a condition never compiles; it fails with "The use of
\* a logical operator(and, or) was wrong." when the adjacent operators are
\* at the top level and the parentheses are balanced, and when one of the two
\* operators is the condition's only fault, the tokens without it parsing; a
\* condition whose operators are never adjacent does not give this error.
C13_AdjacentOperatorsRejected ==
    \A i \in DOMAIN init_results :
        IsPlainRule(i) =>
            /\ NoOperatorAtEnds(TokensOf(i)) =>
                   \A p \in 1..Len(TokensOf(i)) :
                       AdjacentOperators(TokensOf(i), p) =>
                           /\ ~Compiled(i)
                           /\ (AtTopLevel(TokensOf(i), p) /\ Balanced(TokensOf(i))) =>
                                  FailsWith(i, WrongUse)
                           /\ (\E q \in {p, p + 1} : parse(Remove(TokensOf(i), q)).ok) =>
                                  FailsWith(i, WrongUse)
            /\ (\A p \in 1..Len(TokensOf(i)) : ~AdjacentOperators(TokensOf(i), p)) =>
                   ~FailsWith(i, WrongUse)

\* The rule with condition `a and or b`, rejected for the two operators.
C13_Witness ==
    /\ pc = "loaded"
    /\ ConditionOf(1) = Render(<<str_a, str_and, str_or, str_b>>)
    /\ AdjacentOperators(TokensOf(1), 2)
    /\ FailsWith(1, WrongUse)

\* ------------------------------------------------------------------------
\* The pipe of a condition
\* ------------------------------------------------------------------------

HasPipe(s) == \E k \in 1..Len(s) : s[k] = "|"

\* The text of a condition before its first `|`.
BeforePipe(s) ==
    IF HasPipe(s)
    THEN SubSeq(s, 1, (CHOOSE k \in 1..Len(s) :
                          s[k] = "|" /\ \A j \in 1..(k - 1) : s[j] # "|") - 1)
    ELSE s

\* The i-th rule holds what compile_condition gives for the text: the same
\* tree, or an error and no tree.
CompiledAs(i, text) ==
    \E hash_order \in Perms(DOMAIN rule_nodes[i].detection.name_to_selection) :
        \E r \in {compile_condition(text, rule_nodes[i].detection.name_to_selection,
                                    hash_order)} :
            IF r.ok
            THEN Compiled(i) /\ rule_nodes[i].detection.condition = Some(r.val)
            ELSE ~Compiled(i) /\ ~rule_nodes[i].detection.condition.is_some

\* C14: a rule whose condition holds a `|` is compiled as the text before
\* the first `|` is: the same tree, or an error.
C14_PipeSuffixIgnored ==
    \A i \in DOMAIN init_results :
        (Returned(i) /\ HasPipe(ConditionOf(i))) =>
            CompiledAs(i, BeforePipe(ConditionOf(i)))


\* ------------------------------------------------------------------------
\* The matcher of a null value
\* ------------------------------------------------------------------------

\* init has returned Ok and left a matcher.
InitOk == matcher.inited /\ matcher.result.ok /\ ~matcher.result.panicked

\* The pipe names of the matcher's key.
PipeNames == keys_without_head(matcher.key_list)

HasPattern == yaml_value(matcher.select_value).is_some

Pattern == yaml_value(matcher.select_value).v

\* cidr is among the pipes of the key and the pattern is no network.
InvalidCidr ==
    /\ HasPattern
    /\ \E i \in 1..Len(PipeNames) : PipeNames[i] = pipe_cidr
    /\ ~IpCidr_from_str(Pattern).ok

KnownPipes ==
    {pipe_startswith, pipe_endswith, pipe_contains, pipe_re, pipe_base64offset,
     pipe_cidr, pipe_all, pipe_allOnly}

\* What else init rejects: a pipe name it does not know, more than two
\* pipes, and with `re` a pattern that is no regex.
RejectedOtherwise ==
    \/ \E i \in 1..Len(PipeNames) : PipeNames[i] \notin KnownPipes
    \/ Len(PipeNames) > 2
    \/ /\ \E i \in 1..Len(PipeNames) : PipeNames[i] = pipe_re
       /\ ~Regex_new_ok(Pattern)

OctetBits(n) == [k \in 1..8 |-> (n \div Pow2[9 - k]) % 2]

\* The 32 binary digits of an address.
AddrBits(addr) ==
    OctetBits(addr[1]) \o OctetBits(addr[2]) \o OctetBits(addr[3]) \o OctetBits(addr[4])

\* The value is an address whose leading digits are those of the network.
LiesWithin(network_text, event_value) ==
    /\ event_value.is_some
    /\ IpAddr_from_str(event_value.v).ok
    /\ SubSeq(AddrBits(IpAddr_from_str(event_value.v).val), 1,
              IpCidr_from_str(network_text).val.bits)
         = SubSeq(AddrBits(IpCidr_from_str(network_text).val.addr), 1,
                  IpCidr_from_str(network_text).val.bits)

\* cidr is the first pipe of the key and the pattern is a network.
ValidCidr ==
    /\ HasPattern
    /\ PipeNames # <<>>
    /\ PipeNames[1] = pipe_cidr
    /\ IpCidr_from_str(Pattern).ok

\* C17: with the cidr pipe and a valid network, is_match returns true
\* exactly when the value is an address within the network, false for an
\* absent value and for a value that is no address, whatever the regex
\* and the fast match of the matcher say.
C17_CidrDecides ==
    (InitOk /\ ValidCidr /\ is_match_call.called)
        => is_match_call.result = Returns(LiesWithin(Pattern, is_match_call.event_value))

\* The key is f|cidr, the network 10.0.0.0/8 and the value 10.1.2.3.
C17_Witness ==
    /\ InitOk
    /\ PipeNames = <<pipe_cidr>>
    /\ Pattern = str_network
    /\ is_match_call.called
    /\ is_match_call.event_value = Some(str_ip_in)
    /\ is_match_call.result = Returns(TRUE)


\* ------------------------------------------------------------------------
\* The contains pipe
\* ------------------------------------------------------------------------

\* Some part of the text is the word.
IsSubstring(word, text) ==
    \E i \in 1..(Len(text) + 1) : \E j \in (i - 1)..Len(text) :
        SubSeq(text, i, j) = word

\* The pattern is ASCII and has no `*`, no `?` and no backslash.
PlainPattern ==
    /\ HasPattern
    /\ is_ascii(Pattern)
    /\ \A i \in 1..Len(Pattern) : Pattern[i] \notin {"*", "?", "\\"}

\* C18: for a key F|contains and a plain ASCII pattern X, is_match returns
\* true exactly when the value, lowercased, contains X, lowercased, and
\* false when the value is absent.
C18_ContainsIgnoresCase ==
    (InitOk /\ PipeNames = <<pipe_contains>> /\ PlainPattern /\ is_match_call.called)
        => is_match_call.result
             = Returns(/\ is_match_call.event_value.is_some
                       /\ IsSubstring(to_lowercase(Pattern),
                                      to_lowercase(is_match_call.event_value.v)))

\* The pattern SSH matched /usr/bin/ssh.
C18_Witness ==
    /\ InitOk
    /\ PipeNames = <<pipe_contains>>
    /\ Pattern = str_SSH
    /\ is_match_call.called
    /\ is_match_call.event_value = Some(str_usr_bin_ssh)
    /\ is_match_call.result = Returns(TRUE)


\* ------------------------------------------------------------------------
\* The pipes base64offset|contains
\* ------------------------------------------------------------------------

\* The entries of the fast match of the matcher.
Entries == matcher.result.val.fast_match.v

\* Some entry is a part of the value as given.
SomeEntryWithin(value) ==
    \E i \in 1..Len(Entries) : IsSubstring(Entries[i].s, value)

\* C19: for a key F|base64offset|contains the matcher holds up to three
\* Contains entries, one for each of the offsets 0, 1 and 2, not lowercased;
\* is_match returns true exactly when some entry is a part of the value as
\* given; a value that holds only the pattern itself is not matched.
C19_Base64OffsetEntries ==
    (matcher.inited /\ PipeNames = <<pipe_base64offset, pipe_contains>> /\ HasPattern)
        => /\ InitOk
           /\ matcher.result.val.fast_match.is_some
           /\ Len(Entries) <= 3
           /\ \A i \in 1..Len(Entries) :
                  /\ Entries[i].type = "Contains"
                  /\ Entries[i].s = b64_offset_contents(Pattern, i - 1).val
           /\ is_match_call.called
                  => /\ is_match_call.result
                          = Returns(/\ is_match_call.event_value.is_some
                                    /\ SomeEntryWithin(is_match_call.event_value.v))
                     /\ is_match_call.event_value = Some(Pattern)
                            => is_match_call.result = Returns(FALSE)


\* ------------------------------------------------------------------------
\* is_match does not fault
\* ------------------------------------------------------------------------

\* The matcher init left.
Built == matcher.result.val

\* The fast path decides for every present value of the model.
FastPathDecides ==
    \A event_value \in EventValues :
        event_value.is_some => fast_match_result(Built.fast_match.v, event_value.v).is_some

KindOf(token) ==
    IF token.type = "Not" THEN "not"
    ELSE IF token.type \in {"And", "Or"} THEN "operator"
    ELSE "name"

\* The items of balanced tokens outside every parenthesis: the tokens, and
\* each parenthesised group as one item holding the tokens inside it.
RECURSIVE ScanItems(_, _, _, _, _)
ScanItems(toks, i, depth, start, items) ==
    IF i > Len(toks) THEN items
    ELSE IF toks[i].type = "LeftParenthesis"
    THEN ScanItems(toks, i + 1, depth + 1, IF depth = 0 THEN i ELSE start, items)
    ELSE IF toks[i].type = "RightParenthesis"
    THEN ScanItems(toks, i + 1, depth - 1, start,
                   IF depth = 1
                   THEN Append(items, [kind |-> "group",
                                       inner |-> SubSeq(toks, start + 1, i - 1)])
                   ELSE items)
    ELSE ScanItems(toks, i + 1, depth, start,
                   IF depth = 0
                   THEN Append(items, [kind |-> KindOf(toks[i]), inner |-> <<>>])
                   ELSE items)

\* The runs of items between the operators, from item i on.
RECURSIVE RunsFrom(_, _, _, _)
RunsFrom(items, i, run, runs) ==
    IF i > Len(items) THEN Append(runs, run)
    ELSE IF items[i].kind = "operator" THEN RunsFrom(items, i + 1, <<>>, Append(runs, run))
    ELSE RunsFrom(items, i + 1, Append(run, items[i]), runs)

RunsOf(toks) == RunsFrom(ScanItems(toks, 1, 0, 0, <<>>), 1, <<>>, <<>>)

\* A run that resolves: one item that is not `not`, or `not` and one item
\* that is not `not`.
Resolves(run) ==
    \/ Len(run) = 1 /\ run[1].kind # "not"
    \/ Len(run) = 2 /\ run[1].kind = "not" /\ run[2].kind # "not"

\* Every run of the tokens resolves, those inside the groups too.
RECURSIVE EveryRunResolves(_)
EveryRunResolves(toks) ==
    \A k \in 1..Len(RunsOf(toks)) :
        /\ Resolves(RunsOf(toks)[k])
        /\ \A m \in 1..Len(RunsOf(toks)[k]) :
               RunsOf(toks)[k][m].kind = "group"
                   => EveryRunResolves(RunsOf(toks)[k][m].inner)

\* C21: a run of tokens between logical operators resolves when it is one
\* token other than `not`, or `not X` with X not `not`, X a name or a
\* parenthesised group; every other run is rejected with an error. So a
\* condition with balanced parentheses parses exactly when every run
\* resolves, no rule with a run that does not is compiled, and a compiled
\* rule evaluates `not X` to the negation of X.
C21_OperandRuns ==
    \A i \in DOMAIN init_results :
        (IsPlainRule(i) /\ Balanced(TokensOf(i))) =>
            /\ Parses(i) <=> EveryRunResolves(TokensOf(i))
            /\ ~EveryRunResolves(TokensOf(i)) => init_results[i] # <<>>
            /\ (Compiled(i) /\ selected.rule = i) =>
                   selected.matched
                     = ReadExpression(TokensOf(i),
                                      TruthOf(rule_nodes[i], logdata[selected.record])).val

\* The rule with condition `not not a`, a run of three tokens, is rejected.
C21_Witness ==
    /\ pc = "loaded"
    /\ ConditionOf(1) = Render(<<str_not, str_not, str_a>>)
    /\ ~EveryRunResolves(TokensOf(1))
    /\ FailsWith(1, MultipleNamesMsg.text)


\* ------------------------------------------------------------------------
\* tokenize
\* ------------------------------------------------------------------------

\* The characters [A-Za-z0-9_].
BarewordChars == WordChars \ NonAsciiChars

\* The token of a bareword: a reserved word, or a reference to the name.
WordToken(word) ==
    IF word = str_not THEN Token("Not")
    ELSE IF word = str_and THEN Token("And")
    ELSE IF word = str_or THEN Token("Or")
    ELSE SelectionReference(word)

\* The tokens with the bareword read so far added, if there is one.
Flush(toks, word) == IF word = <<>> THEN toks ELSE Append(toks, WordToken(word))

\* The string read character by character from position i, with barewords
\* made of the characters of chars: `(` and `)` give a token, a space gives
\* none, a maximal bareword gives its token.
RECURSIVE Lexed(_, _, _, _, _)
Lexed(s, i, word, toks, chars) ==
    IF i > Len(s) THEN Flush(toks, word)
    ELSE IF s[i] \in chars THEN Lexed(s, i + 1, Append(word, s[i]), toks, chars)
    ELSE IF s[i] = "("
    THEN Lexed(s, i + 1, <<>>, Append(Flush(toks, word), Token("LeftParenthesis")), chars)
    ELSE IF s[i] = ")"
    THEN Lexed(s, i + 1, <<>>, Append(Flush(toks, word), Token("RightParenthesis")), chars)
    ELSE Lexed(s, i + 1, <<>>, Flush(toks, word), chars)

\* The string has a character that is no parenthesis, no space and none of
\* chars.
HasUnusable(s, chars) ==
    \E k \in 1..Len(s) : s[k] \notin chars \cup {"(", ")", " "}

\* tokenize gives the condition of the i-th rule the tokens read with
\* barewords of chars, and fails exactly when a character is unusable.
TokenizedWith(i, chars) ==
    /\ tokenize(ConditionOf(i)).ok <=> ~HasUnusable(ConditionOf(i), chars)
    /\ tokenize(ConditionOf(i)).ok
           => tokenize(ConditionOf(i)).val = Lexed(ConditionOf(i), 1, <<>>, <<>>, chars)
    /\ (/\ HasUnusable(ConditionOf(i), chars)
        /\ ~HasPipe(ConditionOf(i))
        /\ \A k \in 1..Len(ConditionOf(i)) : ConditionOf(i)[k] # "*")
           => FailsWith(i, "An unusable character was found.")

\* C22: tokenize gives the tokens of a condition from left to right: a
\* token for `(` and for `)`, none for a space, and for each maximal
\* bareword `not`, `and` or `or` when it is exactly that word, a
\* SelectionReference otherwise; it fails exactly when the string has a
\* character that is none of `(`, `)`, space and [A-Za-z0-9_].
C22_TokenizeBarewords ==
    \A i \in DOMAIN init_results : TokenizedWith(i, BarewordChars)

\* C22, with the barewords the code reads: the characters of the regex
\* class \w, which has the letters beyond ASCII too.
C22_TokenizeWords ==
    \A i \in DOMAIN init_results : TokenizedWith(i, WordChars)

\* The condition `(a)orb` tokenized into `(`, a, `)` and the name orb.
C22_Witness ==
    /\ pc = "loaded"
    /\ ConditionOf(1) = <<"(", "a", ")", "o", "r", "b">>
    /\ tokenize(ConditionOf(1)).ok
    /\ tokenize(ConditionOf(1)).val
         = <<Token("LeftParenthesis"), SelectionReference(str_a),
             Token("RightParenthesis"), SelectionReference(<<"o", "r", "b">>)>>

\* ------------------------------------------------------------------------
\* One selection: the shapes of a YAML selection value
\* ------------------------------------------------------------------------

field_pid_all == field_pid \o Pipe_all

ScalarList == YamlArray(<<YamlString(<<"0">>), YamlString(<<"1">>)>>)

\* The values a selection name can carry: scalars, sequences and mappings,
\* empty and nested, with `|all` at the first and at a deeper key, and a
\* mapping key that is not a string at the first and at a deeper level.
SelectionShapes ==
    {YamlString(<<"0">>), YamlNull, YamlInteger(<<"1">>),
     YamlArray(<<>>), ScalarList, YamlHash(<<>>),
     YamlArray(<<SelPid0, YamlString(<<"0">>)>>),
     SelPid0,
     YamlHash(<<Entry(YamlString(field_pid), ScalarList)>>),
     YamlHash(<<Entry(YamlString(field_pid_all), ScalarList)>>),
     YamlHash(<<Entry(YamlString(Pipe_all), ScalarList)>>),
     YamlHash(<<Entry(YamlString(field_pid_all), YamlArray(<<>>))>>),
     YamlHash(<<Entry(YamlString(field_pid), YamlArray(<<ScalarList, YamlArray(<<>>)>>))>>),
     YamlHash(<<Entry(YamlString(field_euid),
                      YamlHash(<<Entry(YamlString(field_pid_all), ScalarList)>>))>>),
     YamlHash(<<Entry(YamlString(field_pid_all),
                      YamlHash(<<Entry(YamlString(field_euid), ScalarList)>>))>>),
     YamlHash(<<Entry(YamlString(Pipe_all),
                      YamlHash(<<Entry(YamlString(field_euid), ScalarList)>>))>>),
     YamlHash(<<Entry(YamlString(field_pid), YamlHash(<<>>)),
                Entry(YamlString(field_euid), YamlString(<<"0">>))>>),
     SelEuidNone,
     YamlHash(<<Entry(YamlString(field_pid), YamlArray(<<>>)),
                Entry(YamlString(field_euid), YamlString(<<"0">>))>>),
     SelIntegerKey,
     YamlHash(<<Entry(YamlString(field_pid), SelIntegerKey)>>)}

\* The conditions over the one selection a.
ShapeConditions ==
    {Render(<<str_a>>), Render(<<str_not, str_a>>),
     Render(<<str_not, str_lp, str_not, str_a, str_rp>>),
     Render(<<str_a, str_or, str_not, str_a>>)}

\* One rule file whose detection block defines the selection a with one of
\* SelectionShapes, and one record.
InitSelection ==
    \E y \in SelectionShapes, c \in ShapeConditions, r \in Records :
        InitWith(<<RuleYaml(DetectionYaml(<<<<str_a, y>>>>, <<>>, StringCondition(c)))>>,
                 <<r>>)

SpecSelection == InitSelection /\ [][Next]_vars

\* ------------------------------------------------------------------------
\* C23: the lowering of a selection value
\* ------------------------------------------------------------------------

\* The key directly above a value: the last key of the list.
ParentKey(key_list) == key_list[Len(key_list)]

\* The lowering by the parent key: a mapping is And, each child under the
\* key list with its key appended; a sequence is And when its parent key
\* ends with `|all` and is longer, All when its parent key is `|all`, Or
\* otherwise; anything else is a Leaf with the key list and the value.
RECURSIVE LoweredByParent(_, _)
LoweredByParent(key_list, yaml) ==
    IF yaml.tag = "Hash"
    THEN Node("And", [i \in 1..Len(yaml.items) |->
                 LoweredByParent(Append(key_list, yaml.items[i].key.str),
                                 yaml.items[i].value)])
    ELSE IF yaml.tag = "Array"
    THEN Node(IF key_list = <<>> THEN "Or"
              ELSE IF ParentKey(key_list) = Pipe_all THEN "All"
              ELSE IF EndsWith(ParentKey(key_list), Pipe_all) THEN "And"
              ELSE "Or",
              [i \in 1..Len(yaml.items) |-> LoweredByParent(key_list, yaml.items[i])])
    ELSE LeafSelectionNode(key_list, yaml)

\* The value the detection block of rule file i gives the selection name.
SelectionValue(i, name) ==
    YamlIndex(YamlIndex(yaml_files[i].yaml, key_detection), name)

\* C23: every selection of a loaded rule is built, and its tree is the
\* lowering of its value by the parent key at every depth: mapping to And
\* with the key appended, sequence under `x|all` to And, under `|all` to
\* All, any other sequence to Or, scalar to Leaf.
C23_LoweredAtEveryDepth ==
    \A i \in DOMAIN rule_nodes :
        /\ ~(pc = "panicked" /\ i = Len(rule_nodes))
        /\ \A name \in DOMAIN rule_nodes[i].detection.name_to_selection :
               rule_nodes[i].detection.name_to_selection[name]
                   = LoweredByParent(<<>>, SelectionValue(i, name))

\* ------------------------------------------------------------------------
\* C24: building a selection tree
\* ------------------------------------------------------------------------

\* C24: building the tree of a selection never faults, whatever the shape
\* of its value: no rule load ends in a panic, and the tree of every
\* selection of a loaded rule file is built whole.
C24_BuilderNeverFaults ==
    /\ pc # "panicked"
    /\ \A i \in DOMAIN rule_nodes :
           \A name \in SelectionNames(yaml_files[i].yaml) :
               ~has_panicked(parse_selection(SelectionValue(i, name)).v)

\* ------------------------------------------------------------------------
\* C25: the value of a node on a record
\* ------------------------------------------------------------------------

\* The value of a tree read off its shape: the number of false children of
\* an And or All node is zero, the number of true children of an Or node
\* is at least one, a Not node has a false child, a Ref node has the value
\* of its target; a leaf has the value its own select gives.
RECURSIVE Holds(_, _)
Holds(node, event_record) ==
    IF node.kind \in {"And", "All"}
    THEN Cardinality({i \in 1..Len(node.child_nodes) :
                         ~Holds(node.child_nodes[i], event_record)}) = 0
    ELSE IF node.kind = "Or"
    THEN Cardinality({i \in 1..Len(node.child_nodes) :
                         Holds(node.child_nodes[i], event_record)}) >= 1
    ELSE IF node.kind = "Not"
    THEN Holds(node.child_nodes[1], event_record) = FALSE
    ELSE IF node.kind = "Ref"
    THEN Holds(node.child_nodes[1], event_record)
    ELSE LeafSelectionNode_select(node, event_record)

\* C25: on every record an And node is true exactly when every child is
\* (true without children), an All node has the value of the And node over
\* the same children, an Or node is true exactly when some child is (false
\* without children), a Not node is true exactly when its child is false,
\* so that Not(Not(X)) has the value of X, and a Ref node has the value of
\* its target: the selections and the condition of every compiled rule have
\* the value read off their shape.
C25_NodeValues ==
    \A i \in DOMAIN rule_nodes : \A k \in DOMAIN logdata :
        /\ \A n \in DOMAIN rule_nodes[i].detection.name_to_selection :
               LET X == rule_nodes[i].detection.name_to_selection[n]
               IN /\ select(X, logdata[k]) = Holds(X, logdata[k])
                  /\ select(NotSelectionNode(NotSelectionNode(X)), logdata[k])
                         = select(X, logdata[k])
                  /\ select(AllSelectionNode(X.child_nodes), logdata[k])
                         = select(AndSelectionNode(X.child_nodes), logdata[k])
                  /\ select(RefSelectionNode(X), logdata[k]) = select(X, logdata[k])
        /\ (Compiled(i) /\ pc # "panicked" /\ selected.rule = i /\ selected.record = k) =>
               selected.matched = Holds(rule_nodes[i].detection.condition.v, logdata[k])

\* A compiled "not (not a)" over a selection that is a sequence without
\* elements has been evaluated: the two Not nodes, each under the Or node
\* of its group, over Ref(Or()) give false.
C25_Witness ==
    /\ pc = "loaded" /\ selected.rule = 1 /\ Compiled(1)
    /\ ConditionOf(1) = Render(<<str_not, str_lp, str_not, str_a, str_rp>>)
    /\ rule_nodes[1].detection.condition.v
           = OrSelectionNode(<<NotSelectionNode(OrSelectionNode(<<NotSelectionNode(
                 RefSelectionNode(OrSelectionNode(<<>>)))>>))>>)
    /\ ~selected.matched

\* ------------------------------------------------------------------------
\* C26: the Exact fast match and the regex of the pattern
\* ------------------------------------------------------------------------

\* The key is a field without pipes.
FieldAlone == matcher.key_list # <<>> /\ PipeNames = <<>>

\* The pattern is ASCII and has no `*` and no `?`.
NoWildcardPattern ==
    /\ HasPattern
    /\ is_ascii(Pattern)
    /\ \A i \in 1..Len(Pattern) : Pattern[i] \notin {"*", "?"}

\* The regex the Wildcard pipe alone makes of the pattern.
WildcardRegex == from_pattern_to_regex_str(Pattern, <<PipeElement("Wildcard")>>)

\* C26: for an ASCII pattern without `*` and `?`, backslashes allowed, the
\* matcher of a field alone has the fast match Exact of the pattern with
\* each pair of backslashes replaced by one, and is_match returns for every
\* present value what the full match of the regex of the pattern returns.
C26_ExactIsRegex ==
    (InitOk /\ FieldAlone /\ NoWildcardPattern)
        => /\ Built.fast_match = Some(<<FastMatch("Exact", unescape_backslash(Pattern))>>)
           /\ (is_match_call.called /\ is_match_call.event_value.is_some)
                  => is_match_call.result
                       = Returns(regex_matches_whole(WildcardRegex,
                                                     is_match_call.event_value.v))

\* ------------------------------------------------------------------------
\* C27: the StartsWith and EndsWith fast matches and the regex
\* ------------------------------------------------------------------------

\* The matcher has the one fast match of the type.
HasFastMatch(type) ==
    /\ Built.fast_match.is_some
    /\ Len(Built.fast_match.v) = 1
    /\ Built.fast_match.v[1].type = type

\* The string of the single fast match.
FastString == Built.fast_match.v[1].s

\* The wildcard pattern the fast match stands for: s* for StartsWith(s),
\* *s for EndsWith(s).
FastPattern ==
    IF Built.fast_match.v[1].type = "StartsWith" THEN FastString \o <<"*">>
    ELSE <<"*">> \o FastString

\* The value begins (StartsWith) or ends (EndsWith) with the string of the
\* fast match, ASCII case aside.
AsciiAffix(value) ==
    IF Built.fast_match.v[1].type = "StartsWith"
    THEN eq_ignore_ascii_case(FastString, SubSeq(value, 1, Len(FastString)))
    ELSE eq_ignore_ascii_case(FastString,
                              SubSeq(value, Len(value) - Len(FastString) + 1, Len(value)))

\* C27: a matcher with the fast match StartsWith(s) or EndsWith(s) returns
\* from is_match, for every present value, what the full match of the regex
\* of the wildcard pattern s* or *s returns: false for a value shorter in
\* bytes than s, the comparison of the prefix or suffix without regard to
\* ASCII case for an ASCII value, and what the matcher's regex says for a
\* value that is not ASCII and at least as long as s.
C27_AffixIsRegex ==
    (/\ InitOk /\ (HasFastMatch("StartsWith") \/ HasFastMatch("EndsWith"))
     /\ matcher.key_list # <<>>
     /\ is_match_call.called /\ is_match_call.event_value.is_some)
        => LET value == is_match_call.event_value.v
           IN /\ is_match_call.result
                   = Returns(regex_matches_whole([wildcard |-> TRUE, text |-> FastPattern],
                                                 value))
              /\ ByteLen(value) < ByteLen(FastString)
                     => is_match_call.result = Returns(FALSE)
              /\ (ByteLen(value) >= ByteLen(FastString) /\ is_ascii(value))
                     => is_match_call.result = Returns(AsciiAffix(value))
              /\ (ByteLen(value) >= ByteLen(FastString) /\ ~is_ascii(value))
                     => is_match_call.result = Returns(is_regex_fullmatch(Built, value))

\* ------------------------------------------------------------------------
\* C28: `all of` and `1 of` with a prefix no selection has
\* ------------------------------------------------------------------------

\* `all of P*` or `1 of P*` is a part of the text.
HasOfOccurrence(text, prefix) ==
    \/ contains_str(text, AllOfCondition(prefix))
    \/ contains_str(text, OneOfCondition(prefix))

\* convert_condition leaves `()` and no `all of P*` and no `1 of P*`,
\* whatever the order of the names.
ExpandsToEmpty(i, prefix) ==
    \A hash_order \in Perms(DOMAIN rule_nodes[i].detection.name_to_selection) :
        /\ contains_str(convert_condition(ConditionOf(i), hash_order), <<"(", ")">>)
        /\ ~HasOfOccurrence(convert_condition(ConditionOf(i), hash_order), prefix)

\* RuleNode::init returned the error of a failed compilation and the rule
\* holds no condition tree.
CompilationFailed(i) ==
    /\ init_results[i] # <<>>
    /\ \A k \in DOMAIN init_results[i] :
           init_results[i][k].prefix = "A condition parse error has occurred. "
    /\ ~rule_nodes[i].detection.condition.is_some

\* C28 as stated: when no named selection has a name beginning with P, a
\* condition that contains `all of P*` or `1 of P*` has the occurrence
\* expanded to `()` and does not compile.
C28_UnmatchedOfFails ==
    \A i \in DOMAIN init_results : \A prefix \in OfPrefixes :
        (/\ Returned(i) /\ rule_nodes[i].detection.name_to_selection # <<>>
         /\ NamesWithPrefix(rule_nodes[i], prefix) = {}
         /\ HasOfOccurrence(ConditionOf(i), prefix))
            => ExpandsToEmpty(i, prefix) /\ CompilationFailed(i)

\* C28, amended: when no named selection has a name beginning with P, every
\* `all of P*` and `1 of P*` of the condition is expanded to `()`, and when
\* one of them stands before the first `|` of the condition the compilation
\* fails and the rule holds no tree.
C28_UnmatchedOfBeforePipeFails ==
    \A i \in DOMAIN init_results : \A prefix \in OfPrefixes :
        (/\ Returned(i) /\ rule_nodes[i].detection.name_to_selection # <<>>
         /\ NamesWithPrefix(rule_nodes[i], prefix) = {}
         /\ HasOfOccurrence(ConditionOf(i), prefix))
            => /\ ExpandsToEmpty(i, prefix)
               /\ HasOfOccurrence(BeforePipe(ConditionOf(i)), prefix)
                      => CompilationFailed(i)

\* The rule with the selections s1 and t1 and the condition
\* "s1 or all of q*" was loaded and did not compile.
C28_Witness ==
    /\ pc = "loaded"
    /\ ConditionOf(1) = str_s1 \o <<" ">> \o str_or \o <<" ">> \o AllOfCondition(<<"q">>)
    /\ DOMAIN rule_nodes[1].detection.name_to_selection = {str_s1, str_t1}
    /\ CompilationFailed(1)
    /\ FailsWith(1, "Unknown error.")

\* ------------------------------------------------------------------------
\* C29: the number of pipes of a key
\* ------------------------------------------------------------------------

\* The pipes of the key that PipeElement::new knows.
RecognisedPipes == {i \in 1..Len(PipeNames) : PipeNames[i] \in KnownPipes}

\* The pipes of the key that it does not know.
UnknownPipes == {i \in 1..Len(PipeNames) : PipeNames[i] \notin KnownPipes}

\* init returned the error among its errors.
InitErrorHas(msg) ==
    /\ ~matcher.result.ok
    /\ \E k \in DOMAIN matcher.result.err : matcher.result.err[k] = msg

\* C29 as stated: init from a value that is not null fails with "Multiple
\* pipe elements cannot be used." when the key has three or more recognised
\* pipes, and never with that error when it has at most two.
C29_TooManyPipes ==
    (matcher.inited /\ matcher.select_value.tag # "Null")
        => /\ Cardinality(RecognisedPipes) >= 3
                  => /\ ~matcher.result.ok
                     /\ matcher.result.err
                          = <<Msg("Multiple pipe elements cannot be used.")>>
           /\ Cardinality(RecognisedPipes) <= 2
                  => ~InitErrorHas(Msg("Multiple pipe elements cannot be used."))

\* C29, amended: init from a scalar value fails with "Multiple pipe elements
\* cannot be used. key:" exactly when the key has three or more pipes and
\* knows them all; with a pipe it does not know among them it fails with
\* one "An unknown pipe element was specified. key:" for each such pipe.
C29_TooManyKnownPipes ==
    (matcher.inited /\ HasPattern)
        => /\ (Cardinality(RecognisedPipes) >= 3 /\ UnknownPipes = {})
                  => /\ ~matcher.result.ok /\ ~matcher.result.panicked
                     /\ matcher.result.err
                          = <<Msg("Multiple pipe elements cannot be used. key:")>>
           /\ UnknownPipes # {}
                  => /\ ~matcher.result.ok /\ ~matcher.result.panicked
                     /\ matcher.result.err
                          = [k \in 1..Cardinality(UnknownPipes) |->
                                Msg("An unknown pipe element was specified. key:")]
           /\ Cardinality(RecognisedPipes) <= 2
                  => ~InitErrorHas(Msg("Multiple pipe elements cannot be used. key:"))

\* init of the key f|contains|all|re with the pattern a has returned the
\* error.
C29_Witness ==
    /\ matcher.inited
    /\ PipeNames = <<pipe_contains, pipe_all, pipe_re>>
    /\ matcher.select_value = YamlString(str_a)
    /\ InitErrorHas(Msg("Multiple pipe elements cannot be used. key:"))

\* ------------------------------------------------------------------------
\* One call of compile_condition, step by step
\* ------------------------------------------------------------------------

\* The iteration of the loop of tokenize with the `continue` of a space
\* before the space is removed from the input.
tokenize_iteration_kept(run) ==
    IF CONDITION_REGEXMAP(run.cur_condition_str) = 0
    THEN [run EXCEPT !.pc = "done",
                     !.result = Err(Msg("An unusable character was found."))]
    ELSE LET mached_str == SubSeq(run.cur_condition_str, 1,
                                  CONDITION_REGEXMAP(run.cur_condition_str))
         IN IF to_enum(mached_str).type = "Space" THEN run
            ELSE [run EXCEPT
                     !.cur_condition_str = ReplaceFirst(run.cur_condition_str, mached_str, <<>>),
                     !.tokens = Append(run.tokens, to_enum(mached_str))]

\* One iteration of the `while !cur_condition_str.is_empty()` of tokenize:
\* the error of a character no regex matches, or the match removed from the
\* input and its token pushed unless it is a space.
tokenize_iteration(run) ==
    IF CONDITION_REGEXMAP(run.cur_condition_str) = 0
    THEN [run EXCEPT !.pc = "done",
                     !.result = Err(Msg("An unusable character was found."))]
    ELSE LET mached_str == SubSeq(run.cur_condition_str, 1,
                                  CONDITION_REGEXMAP(run.cur_condition_str))
         IN IF to_enum(mached_str).type = "Space"
            THEN [run EXCEPT
                     !.cur_condition_str = ReplaceFirst(run.cur_condition_str, mached_str, <<>>)]
            ELSE [run EXCEPT
                     !.cur_condition_str = ReplaceFirst(run.cur_condition_str, mached_str, <<>>),
                     !.tokens = Append(run.tokens, to_enum(mached_str))]

\* parse up to its call of parse_rest_parenthesis.
parse_operands(parsed) ==
    IF ~parsed.ok THEN parsed ELSE parse_operand_container(parsed.val)

parse_operators(parsed) ==
    IF ~parsed.ok THEN parsed ELSE parse_operands(parse_and_or_operator(parsed.val))

parse_before_rest(tokens) == parse_operators(parse_parenthesis(tokens))

\* The token sequences parse_rest_parenthesis calls parse on: those of the
\* ParenthesisContainers of the token, left to right, none inside another.
RECURSIVE groups_of(_)
RECURSIVE groups_of_loop(_, _)

groups_of_loop(subs, i) ==
    IF i > Len(subs) THEN <<>>
    ELSE groups_of(subs[i]) \o groups_of_loop(subs, i + 1)

groups_of(token) ==
    IF token.type = "ParenthesisContainer" THEN <<token.sub>>
    ELSE groups_of_loop(sub_tokens(token), 1)

\* The table of the names a and b.
CompileNames ==
    (str_a :> parse_selection(SelPid0).v) @@ (str_b :> parse_selection(SelEuidNone).v)

\* The conditions compiled: the generated and the longer ones, and two with
\* `all of` and `1 of`.
CompileConditions ==
    GeneratedConditions \cup LongConditions
    \cup {AllOfCondition(str_a), OneOfCondition(<<"q">>) \o <<" ">> \o str_or \o <<" ">> \o str_a}

\* compile_condition has expanded the condition and removed what RE_PIPE
\* captures, and calls tokenize.
InitCompile ==
    \E condition_str \in CompileConditions :
        /\ yaml_files = <<>>
        /\ logdata = <<>>
        /\ rule_nodes = <<>>
        /\ init_results = <<>>
        /\ pc = "done"
        /\ selected = NoCall
        /\ detections = <<>>
        /\ matcher = NewMatcher(<<>>, YamlNull)
        /\ is_match_call = NoMatchCall
        /\ compile_run =
               [pc |-> "tokenize", condition_str |-> condition_str,
                cur_condition_str |->
                    strip_pipe(convert_condition(condition_str, <<str_a, str_b>>)),
                tokens |-> <<>>, groups |-> <<>>, result |-> Ok(<<>>)]

\* One iteration of the loop of tokenize.
TokenizeStep ==
    /\ compile_run.pc = "tokenize"
    /\ compile_run.cur_condition_str # <<>>
    /\ compile_run' = tokenize_iteration(compile_run)
    /\ UNCHANGED <<yaml_files, logdata, rule_nodes, init_results, pc, selected,
                   detections, matcher, is_match_call>>

\* tokenize returns Ok(tokens) and parse is called on the tokens.
TokenizeReturn ==
    /\ compile_run.pc = "tokenize"
    /\ compile_run.cur_condition_str = <<>>
    /\ compile_run' = [compile_run EXCEPT !.pc = "parse",
                                          !.groups = <<compile_run.tokens>>]
    /\ UNCHANGED <<yaml_files, logdata, rule_nodes, init_results, pc, selected,
                   detections, matcher, is_match_call>>

\* One call of parse, on the token sequence of the condition or of a
\* group: its error ends the compilation; otherwise parse_rest_parenthesis
\* is left to call parse on the groups of what it produced, before the
\* groups that were already waiting.
ParseCall ==
    /\ compile_run.pc = "parse"
    /\ compile_run.groups # <<>>
    /\ \E r \in {parse_before_rest(Head(compile_run.groups))} :
           compile_run' =
               IF ~r.ok THEN [compile_run EXCEPT !.pc = "done", !.result = r]
               ELSE [compile_run EXCEPT
                        !.groups = groups_of(r.val) \o Tail(compile_run.groups)]
    /\ UNCHANGED <<yaml_files, logdata, rule_nodes, init_results, pc, selected,
                   detections, matcher, is_match_call>>

\* Every call of parse has returned: the parsed token is lowered to the
\* tree, or to the error of a name that is not defined.
ParseReturn ==
    /\ compile_run.pc = "parse"
    /\ compile_run.groups = <<>>
    /\ compile_run' = [compile_run EXCEPT
                          !.pc = "done",
                          !.result = to_selectnode_parsed(parse(compile_run.tokens),
                                                          CompileNames)]
    /\ UNCHANGED <<yaml_files, logdata, rule_nodes, init_results, pc, selected,
                   detections, matcher, is_match_call>>

NextCompile == TokenizeStep \/ TokenizeReturn \/ ParseCall \/ ParseReturn

SpecCompile == InitCompile /\ [][NextCompile]_vars

\* The call has not returned: a step of NextCompile can be taken.
Running == compile_run.pc # "done"

\* The call runs on, WF_vars(NextCompile) with Running for the ENABLED of
\* its definition: a call that never returns keeps taking steps.
SpecCompileFair ==
    SpecCompile /\ ([]<>(~Running) \/ []<><<NextCompile>>_vars)

\* ------------------------------------------------------------------------
\* C30: compile_condition terminates
\* ------------------------------------------------------------------------

\* The groups the last call of parse left to be parsed.
NewGroups == SubSeq(compile_run.groups', 1,
                    Len(compile_run.groups') - Len(compile_run.groups) + 1)

\* An iteration of the tokenizer that does not return leaves a shorter
\* input, and a call of parse that does not return an error leaves only
\* groups shorter than the token sequence it was given.
Decreases ==
    /\ (compile_run.pc = "tokenize" /\ compile_run'.pc = "tokenize")
           => Len(compile_run.cur_condition_str') < Len(compile_run.cur_condition_str)
    /\ (compile_run.pc = "parse" /\ compile_run'.pc = "parse")
           => \A k \in DOMAIN NewGroups :
                  Len(NewGroups[k]) < Len(Head(compile_run.groups))

\* The iteration of the tokenizer that is about to run returns the error or
\* leaves a shorter input.
TokenizerConsumes ==
    (compile_run.pc = "tokenize" /\ compile_run.cur_condition_str # <<>>)
        => \/ tokenize_iteration(compile_run).pc = "done"
           \/ Len(tokenize_iteration(compile_run).cur_condition_str)
                  < Len(compile_run.cur_condition_str)

\* What the call returned is what compile_condition_body returns.
ReturnsAsCompiled ==
    compile_run.pc = "done"
        => compile_run.result
             = compile_condition_body(
                   strip_pipe(convert_condition(compile_run.condition_str, <<str_a, str_b>>)),
                   CompileNames)

\* C30: compile_condition terminates on every condition: each iteration of
\* the tokenizer removes at least one character of the remaining input,
\* each parse of a parenthesised group works on a token sequence strictly
\* shorter than the one that held it, and the call ends with the tree or
\* the error compile_condition returns.
C30_CompileTerminates ==
    /\ []TokenizerConsumes
    /\ [][Decreases]_vars
    /\ []ReturnsAsCompiled
    /\ <>(compile_run.pc = "done")

\* The call on "(a or (b and not a))" has ended with a tree.
C30_Witness ==
    /\ compile_run.pc = "done"
    /\ compile_run.condition_str
         = Render(<<str_lp, str_a, str_or, str_lp, str_b, str_and, str_not, str_a,
                    str_rp, str_rp>>)
    /\ compile_run.result.ok

====
